---- MODULE Spec2Model ----
(***************************************************************************)
(* Live browser control service: the session registry (sessions.ts), the    *)
(* WebSocket connection handler (ws/connection.ts) with its control        *)
(* message handlers and its frame streaming loop.                          *)
(*                                                                         *)
(* Node.js runs one callback at a time: every action below is one          *)
(* synchronous run of code, from the resumption of an await (or the        *)
(* delivery of an event) up to the next await.  A Playwright call          *)
(* (page.close, browser.close, newPage, screenshot, ...) is issued in one  *)
(* action and resolves or rejects in a later one.                          *)
(***************************************************************************)
EXTENDS Integers, Sequences, FiniteSets, TLC

\* ------------------------------------------------------------------ bounds
NumConns == 2       \* connections (one session each)
MaxMsgs == 4        \* control messages a connection receives
MaxInFlight == 2    \* control messages of one connection being handled at once

\* ------------------------------------------------------- program constants
MAX_BUFFERED_BYTES == 524288
FRAME_INTERVAL_MS == 100
ViewportWidth == 1024
ViewportHeight == 576

Conns == 1..NumConns
SessionIds == 1..NumConns
Absent == 0                 \* undefined: no session, no page
Indices == -1..(MaxMsgs - 1)    \* the index of switch_tab / close_tab

VARIABLES
    sessions,       \* the keys of the Map sessions
    obj,            \* the SessionData object of every id ever created
    chromium,       \* the browser process of every session, with its pages
    nextId,         \* the next fresh session identifier
    conn,           \* per connection: handleConnection's locals and the socket
    closeHandler,   \* per connection: the task of the ws "close" listener
    handlers,       \* per connection: the running tasks of the ws "message"
                    \* listener, in the order of arrival of their messages
    received,       \* per connection: the control messages received so far
    initTabs,       \* per connection: the detached sendTabsState of line 107
    loop,           \* per connection: the frame streaming loop
    bufferedHigh,   \* per connection: ws.bufferedAmount > MAX_BUFFERED_BYTES
    sent,           \* the server messages put on the wire by the last step
    lastTabClosed,  \* per connection: a close_tab has emptied the tab list
    event           \* what the last step ran on: a control message, the
                    \* settling of an awaited call, or something else

vars == <<sessions, obj, chromium, nextId, conn, closeHandler, handlers, received,
          initTabs, loop, bufferedHigh, sent, lastTabClosed, event>>

\* --------------------------------------------------------------- sequences
\* A removal that fills the hole with the last element.
RemoveAtSwap(s, i) == [j \in 1..(Len(s) - 1) |-> IF j = i THEN s[Len(s)] ELSE s[j]]

\* Array.prototype.splice(i, 1), positions counted from 1: what follows the
\* removed element moves up by one.
RemoveAt(s, i) == [j \in 1..(Len(s) - 1) |-> IF j < i THEN s[j] ELSE s[j + 1]]

Range(s) == {s[j] : j \in 1..Len(s)}

\* ------------------------------------------------------ the browser process
\* A browser with its first page (chromium.launch, browser.newPage).
NewChromium ==
    [state |-> "running", closeCalls |-> 0, closeFailed |-> FALSE,
     nPages |-> 1, closedPages |-> {}, pageCloseCalls |-> <<0>>]

NoChromium ==
    [state |-> "none", closeCalls |-> 0, closeFailed |-> FALSE,
     nPages |-> 0, closedPages |-> {}, pageCloseCalls |-> <<>>]

\* page.isClosed()
isClosed(id, p) == p \in chromium[id].closedPages

\* page.close() is issued.
CallPageClose(ch, p) ==
    [ch EXCEPT !.pageCloseCalls[p] = @ + 1]

\* page.close() has resolved.
PageClosed(ch, p) ==
    [ch EXCEPT !.closedPages = @ \cup {p}]

\* browser.close() is issued.
CallBrowserClose(ch) ==
    [ch EXCEPT !.closeCalls = @ + 1]

\* browser.close() has resolved: the process is gone, and its pages with it.
BrowserClosed(ch) ==
    [ch EXCEPT !.state = "closed", !.closedPages = 1..ch.nPages]

\* browser.close() has rejected.
BrowserCloseFailed(ch) ==
    [ch EXCEPT !.closeFailed = TRUE]

\* browser.newPage() has resolved.
NewPage(ch) ==
    [ch EXCEPT !.nPages = @ + 1, !.pageCloseCalls = Append(@, 0)]

\* A session registered before its first page is there.
NewSessionNoTab == [pages |-> <<>>, activeIndex |-> 0]

\* The SessionData createSession registers: the first page of the browser, active.
NewSession == [pages |-> <<1>>, activeIndex |-> 0]

\* ------------------------------------------------------------ the registry
NoSession == [pages |-> <<>>, activeIndex |-> 0]

\* getSession(sessionId): the id when it is registered.
getSession(id) == IF id \in sessions THEN id ELSE Absent

\* getActivePage(sessionId): session.pages[session.activeIndex].
getActivePage(id) ==
    IF id \notin sessions THEN Absent
    ELSE IF obj[id].activeIndex + 1 \in 1..Len(obj[id].pages)
         THEN obj[id].pages[obj[id].activeIndex + 1]
         ELSE Absent

\* A range check that lets index = len pass.
InRangeInclusive(index, len) == ~(index < 0 \/ index > len)

\* setActiveTab's and closeTab's range check.
InRange(index, len) == ~(index < 0 \/ index >= len)

\* Rebalance that lets activeIndex = len pass.
RebalanceStrict(activeIndex, len) ==
    IF activeIndex > len THEN len - 1 ELSE activeIndex

\* closeTab, "Acomodamos activeIndex".
Rebalance(activeIndex, len) ==
    IF activeIndex >= len THEN len - 1 ELSE activeIndex

\* createTab that pushes the page and leaves activeIndex alone.
PushPageKeepActive(s, p) ==
    [pages |-> Append(s.pages, p), activeIndex |-> s.activeIndex]

\* createTab: session.pages.push(page); activeIndex = pages.length - 1.
PushPage(s, p) ==
    [pages |-> Append(s.pages, p), activeIndex |-> Len(s.pages) + 1 - 1]

\* A splice that removes the first tab, whatever the index.
SpliceFirst(s, index) ==
    [s EXCEPT !.pages = RemoveAt(s.pages, 1)]

\* closeTab: session.pages.splice(index, 1).
Splice(s, index) ==
    [s EXCEPT !.pages = RemoveAt(s.pages, index + 1)]

\* ------------------------------------------------------------------- tasks
\* One task per listener invocation.  pc names the await it is suspended at.
Idle == [type |-> "-", index |-> 0, pc |-> "done", page |-> 0, it |-> 0, snap |-> 0]

Task(type, index, pc, page, it, snap) ==
    [type |-> type, index |-> index, pc |-> pc, page |-> page, it |-> it, snap |-> snap]

InFlight(c) == 1..Len(handlers[c])

\* ---------------------------------------------------------- server messages
Msg(c, type, activeIndex, tabs) ==
    [to |-> c, type |-> type, activeIndex |-> activeIndex, tabs |-> tabs]

ErrorMsg(c) == Msg(c, "error", 0, 0)

\* The session_started message of the session id.
SessionStarted(c, id) ==
    [to |-> c, type |-> "session_started", sessionId |-> id,
     viewport |-> [width |-> ViewportWidth, height |-> ViewportHeight]]

\* A catch that only logs.
CaughtSilent(c) == <<>>

\* A catch of the message listener (goto's inner one, the outer one): it logs
\* and sends one error message.
Caught(c) == <<ErrorMsg(c)>>

\* ws.send on a socket that is no longer open puts nothing on the wire.
Wire(c, msgs) == IF conn[c].wsOpen THEN msgs ELSE <<>>

\* A registry that is emptied by a delete.
DeleteAll(id) == {}

\* sessions.delete(sessionId)
Delete(id) == sessions \ {id}

\* ------------------------------------------------------------ normalizeUrl
\* A url is a string, here a sequence of tokens: words (letters, digits and
\* dots, one of them in upper case), the colon, a pair of slashes and a space.
Words == {"http", "https", "HTTPS", "ftp", "example.com"}
UrlTokens == Words \cup {":", "//", " "}

\* The longest url a message carries.
MaxUrlLen == 4

\* Every url of up to MaxUrlLen tokens.
RawUrls == UNION {[1..n -> UrlTokens] : n \in 0..MaxUrlLen}

\* The raw urls a goto / new_tab message carries where the url is not what is
\* examined: "", "http://", "example.com", "http://example.com"; NoUrl is a
\* new_tab without url.
NoUrl == <<"undefined">>
Urls == {<<>>, <<"http", ":", "//">>, <<"example.com">>,
         <<"http", ":", "//", "example.com">>}
Throws == <<"throw">>

\* String.prototype.toLowerCase on a word.
Lower(w) == IF w = "HTTPS" THEN "https" ELSE w

\* String.prototype.trim: the string without its leading and trailing spaces.
trim(s) ==
    LET solid == {i \in 1..Len(s) : s[i] # " "}
    IN  IF solid = {} THEN <<>>
        ELSE SubSeq(s, CHOOSE i \in solid : \A j \in solid : i <= j,
                       CHOOSE i \in solid : \A j \in solid : i >= j)

\* The schemes the URL Standard calls special, of those that can be written.
SpecialSchemes == {<<"http">>, <<"https">>, <<"ftp">>}

\* new URL(...) threw.
Failure == [ok |-> FALSE, protocol |-> <<>>, href |-> <<>>]

\* The number of tokens at the head of s that are in the set.
RECURSIVE Run(_, _)
Run(s, set) == IF s # <<>> /\ Head(s) \in set THEN 1 + Run(Tail(s), set) ELSE 0

\* The tokens of s from position i on.
From(s, i) == SubSeq(s, i, Len(s))

\* The authority of a url (the tokens up to the next slash) is a host and
\* perhaps a colon with a port after it. No word is a number, so a port that is
\* not empty is invalid; a host holds no space; a colon needs a host before it,
\* and so does the end of the authority of a special scheme.
AuthorityOk(auth, special) ==
    LET h == Run(auth, Words)
    IN  /\ h = 0 => (auth = <<>> /\ ~special)
        /\ From(auth, h + 1) \in {<<>>, <<":">>}

\* The path of a url as it is serialised: a space is percent-encoded.
PathOf(s) == [i \in 1..Len(s) |-> IF s[i] = " " THEN "%20" ELSE s[i]]

\* new URL(s) without a base, as far as normalizeUrl reads the result: whether
\* it throws, the protocol, and for a special scheme the href. The parser
\* strips leading and trailing spaces; the scheme is what stands before the
\* first colon, lower-cased, and without it the parse fails; after the colon of
\* a special scheme any slashes are skipped, then come the authority and the
\* path, and an empty path is serialised as "/"; the host is lower-cased. A
\* scheme that is not special has an authority only after "//" (href not read).
URLParse(s) ==
    LET u == trim(s)
        n == Run(u, Words)
        scheme == [i \in 1..n |-> Lower(u[i])]
        rest == From(u, n + 2)
    IN  IF n = 0 \/ Len(u) = n \/ u[n + 1] # ":" THEN Failure
        ELSE IF scheme \in SpecialSchemes
        THEN LET body == From(rest, Run(rest, {"//"}) + 1)
                 a == Run(body, UrlTokens \ {"//"})
                 auth == SubSeq(body, 1, a)
                 h == Run(auth, Words)
                 path == From(body, a + 1)
             IN  IF ~AuthorityOk(auth, TRUE) THEN Failure
                 ELSE [ok |-> TRUE, protocol |-> scheme,
                       href |-> scheme \o <<":", "//">>
                                \o [i \in 1..h |-> Lower(auth[i])]
                                \o (IF path = <<>> THEN <<"/">> ELSE PathOf(path))]
        ELSE IF rest # <<>> /\ Head(rest) = "//"
        THEN LET body == Tail(rest)
                 auth == SubSeq(body, 1, Run(body, UrlTokens \ {"//"}))
             IN  IF ~AuthorityOk(auth, FALSE) THEN Failure
                 ELSE [ok |-> TRUE, protocol |-> scheme, href |-> <<>>]
        ELSE [ok |-> TRUE, protocol |-> scheme, href |-> <<>>]

\* /^https?:\/\//i.test(url)
HasHttpPrefix(url) ==
    /\ Len(url) >= 3
    /\ Lower(url[1]) \in {"http", "https"} /\ url[2] = ":" /\ url[3] = "//"

\* A normalizeUrl that prefixes whatever did not parse as http(s).
normalizeUrlAlwaysPrefix(rawUrl) ==
    LET url == trim(rawUrl)
        parsed == URLParse(url)
        parsed2 == URLParse(<<"https", ":", "//">> \o url)
    IN  IF url = <<>> THEN Throws
        ELSE IF parsed.ok /\ parsed.protocol \in {<<"http">>, <<"https">>} THEN parsed.href
        ELSE IF ~parsed2.ok THEN Throws
        ELSE IF parsed2.protocol \notin {<<"http">>, <<"https">>} THEN Throws
        ELSE parsed2.href

\* normalizeUrl: the string handed to page.goto, or Throws.
normalizeUrl(rawUrl) ==
    LET url == trim(rawUrl)
        parsed == URLParse(url)
        url2 == IF ~HasHttpPrefix(url) THEN <<"https", ":", "//">> \o url ELSE url
        parsed2 == URLParse(url2)
    IN  IF url = <<>> THEN Throws
        ELSE IF parsed.ok /\ parsed.protocol \in {<<"http">>, <<"https">>} THEN parsed.href
        ELSE IF ~parsed2.ok THEN Throws
        ELSE IF parsed2.protocol \notin {<<"http">>, <<"https">>} THEN Throws
        ELSE parsed2.href

\* ---------------------------------------------------------- destroySession
\* The for-of loop over session.pages from iterator position it: pages that are
\* already closed are skipped, page.close() is issued on the first open one;
\* after the last page browser.close() is issued.
DestroyScan(ch, pages, it) ==
    LET open == {j \in (it + 1)..Len(pages) : pages[j] \notin ch.closedPages}
    IN  IF open # {}
        THEN LET j == CHOOSE x \in open : \A y \in open : x <= y
             IN  [pc |-> "destroyPage", page |-> pages[j], it |-> j,
                  ch |-> CallPageClose(ch, pages[j])]
        ELSE [pc |-> "destroyBrowser", page |-> 0, it |-> 0,
              ch |-> CallBrowserClose(ch)]

\* destroySession without its check of the registry.
destroySessionNoCheck(id, ch, pages) == DestroyScan(ch, pages, 0)

\* destroySession(sessionId) up to its first await: nothing for an id that is
\* not registered.
destroySession(id, ch, pages) ==
    IF id \notin sessions
    THEN [pc |-> "done", page |-> 0, it |-> 0, ch |-> ch]
    ELSE DestroyScan(ch, pages, 0)

\* destroySession with sessions.delete inside the try block: a rejection skips it.
DestroyResumeLeak(id, t, ok) ==
    IF t.pc = "destroyPage" /\ ok
    THEN DestroyScan(PageClosed(chromium[id], t.page), obj[id].pages, t.it)
             @@ [del |-> FALSE]
    ELSE IF t.pc = "destroyPage"
    THEN [pc |-> "done", page |-> 0, it |-> 0, ch |-> chromium[id], del |-> FALSE]
    ELSE [pc |-> "done", page |-> 0, it |-> 0, del |-> ok,
          ch |-> IF ok THEN BrowserClosed(chromium[id])
                 ELSE BrowserCloseFailed(chromium[id])]

\* The await of destroySession resolves (ok) or rejects: a rejection lands in
\* the catch, which skips what is left of the try block.  del: sessions.delete.
DestroyResume(id, t, ok) ==
    IF t.pc = "destroyPage" /\ ok
    THEN DestroyScan(PageClosed(chromium[id], t.page), obj[id].pages, t.it)
             @@ [del |-> FALSE]
    ELSE IF t.pc = "destroyPage"
    THEN [pc |-> "done", page |-> 0, it |-> 0, ch |-> chromium[id], del |-> TRUE]
    ELSE [pc |-> "done", page |-> 0, it |-> 0, del |-> TRUE,
          ch |-> IF ok THEN BrowserClosed(chromium[id])
                 ELSE BrowserCloseFailed(chromium[id])]

\* ----------------------------------------------------------- sendTabsState
\* sendTabsState up to its await of the titles: nothing when the session is not
\* registered (reg), else the tab list as it is now is the one reported.
sendTabsState(t, reg, pages) ==
    IF reg THEN Task(t.type, 0, "titles", 0, 0, Len(pages)) ELSE Idle

\* The tabs_state message: the list taken before the await, the activeIndex read
\* after it.
TabsState(c, id, snap) == Msg(c, "tabs_state", obj[id].activeIndex, snap)

\* -------------------------------------------------------------- frame loop
LoopOff == [pc |-> "off", page |-> 0, exit |-> "-"]

Terminated(why) == [pc |-> "terminated", page |-> 0, exit |-> why]

\* The while loop holding back while a navigation of its session is pending.
LoopBodyAfterGoto(c, closedFlag, page, pageIsClosed, high) ==
    IF closedFlag THEN [loop |-> Terminated("closed"), msgs |-> <<>>]
    ELSE IF page = Absent THEN [loop |-> Terminated("noPage"), msgs |-> <<>>]
    ELSE IF pageIsClosed THEN [loop |-> Terminated("error"), msgs |-> <<ErrorMsg(c)>>]
    ELSE IF high \/ \E k \in 1..Len(handlers[c]) : handlers[c][k].pc = "goto"
    THEN [loop |-> [pc |-> "sleep", page |-> 0, exit |-> "-"], msgs |-> <<>>]
    ELSE [loop |-> [pc |-> "capture", page |-> page, exit |-> "-"], msgs |-> <<>>]

\* The while loop without its check of ws.bufferedAmount.
LoopBodyNoSkip(c, closedFlag, page, pageIsClosed, high) ==
    IF closedFlag THEN [loop |-> Terminated("closed"), msgs |-> <<>>]
    ELSE IF page = Absent THEN [loop |-> Terminated("noPage"), msgs |-> <<>>]
    ELSE IF pageIsClosed THEN [loop |-> Terminated("error"), msgs |-> <<ErrorMsg(c)>>]
    ELSE [loop |-> [pc |-> "capture", page |-> page, exit |-> "-"], msgs |-> <<>>]

\* A while loop that looks at ws.bufferedAmount first and, above the threshold,
\* waits again without looking at the closed flag or at the active tab.
LoopBodyHighFirst(c, closedFlag, page, pageIsClosed, high) ==
    IF high THEN [loop |-> [pc |-> "sleep", page |-> 0, exit |-> "-"], msgs |-> <<>>]
    ELSE IF closedFlag THEN [loop |-> Terminated("closed"), msgs |-> <<>>]
    ELSE IF page = Absent THEN [loop |-> Terminated("noPage"), msgs |-> <<>>]
    ELSE IF pageIsClosed THEN [loop |-> Terminated("error"), msgs |-> <<ErrorMsg(c)>>]
    ELSE [loop |-> [pc |-> "capture", page |-> page, exit |-> "-"], msgs |-> <<>>]

\* One pass of the while loop from its head to its next await.
LoopBody(c, closedFlag, page, pageIsClosed, high) ==
    IF closedFlag THEN [loop |-> Terminated("closed"), msgs |-> <<>>]
    ELSE IF page = Absent THEN [loop |-> Terminated("noPage"), msgs |-> <<>>]
    ELSE IF pageIsClosed THEN [loop |-> Terminated("error"), msgs |-> <<ErrorMsg(c)>>]
    ELSE IF high THEN [loop |-> [pc |-> "sleep", page |-> 0, exit |-> "-"], msgs |-> <<>>]
    ELSE [loop |-> [pc |-> "capture", page |-> page, exit |-> "-"], msgs |-> <<>>]

\* ------------------------------------------------------------------ events
\* The control messages that drive the mouse and the keyboard.
InputTypes == {"click", "type", "keydown", "keyup", "scroll"}

\* A step that runs on a timer, a connection or a socket event.
NoEvent == [kind |-> "-", c |-> 0, type |-> "-", index |-> 0]

\* The "message" event of connection c: a control message of this type (and
\* index, for switch_tab and close_tab).
Got(c, type, index) == [kind |-> "message", c |-> c, type |-> type, index |-> index]

\* The "message" event of a goto: the url of the message and what the listener
\* made of it, which is the string it hands to page.goto, Throws when
\* normalizeUrl threw, NoNav when normalizeUrl was not reached.
NoNav == <<"none">>
GotGoto(c, url, nav) ==
    [kind |-> "message", c |-> c, type |-> "goto", index |-> 0, url |-> url, nav |-> nav]

\* A sleep of the frame loop of connection c is over.
Timer(c) == [kind |-> "timer", c |-> c, type |-> "-", index |-> 0]

\* An awaited Playwright call of connection c resolves (ok) or rejects.
Settled(c, ok) ==
    [kind |-> IF ok THEN "resolved" ELSE "rejected", c |-> c, type |-> "-", index |-> 0]

\* ---------------------------------------------------------------- initial
NoConn == [st |-> "new", wsOpen |-> FALSE, closed |-> FALSE, sessionId |-> Absent]

NoInit == [pc |-> "done", snap |-> 0]

Init ==
    /\ sessions = {}
    /\ obj = [id \in SessionIds |-> NoSession]
    /\ chromium = [id \in SessionIds |-> NoChromium]
    /\ nextId = 1
    /\ conn = [c \in Conns |-> NoConn]
    /\ closeHandler = [c \in Conns |-> Idle]
    /\ handlers = [c \in Conns |-> <<>>]
    /\ received = [c \in Conns |-> 0]
    /\ initTabs = [c \in Conns |-> NoInit]
    /\ loop = [c \in Conns |-> LoopOff]
    /\ bufferedHigh = [c \in Conns |-> FALSE]
    /\ sent = <<>>
    /\ lastTabClosed = [c \in Conns |-> FALSE]
    /\ event = NoEvent

\* ------------------------------------------------------- handleConnection
\* A client connects: handleConnection starts and awaits createSession.
Connect(c) ==
    /\ event' = NoEvent
    /\ conn[c].st = "new"
    /\ conn' = [conn EXCEPT ![c] = [@ EXCEPT !.st = "creating", !.wsOpen = TRUE]]
    /\ sent' = <<>>
    /\ UNCHANGED <<received, sessions, obj, chromium, nextId, closeHandler, handlers,
                   initTabs, loop, bufferedHigh, lastTabClosed>>

\* A try block that goes on without sending session_started.
CreateSessionOkSilent(c) ==
    /\ event' = Settled(c, TRUE)
    /\ conn[c].st = "creating"
    /\ nextId \in SessionIds
    /\ LET id == nextId
           lb == LoopBody(c, FALSE, 1, FALSE, bufferedHigh[c])
       IN  /\ nextId' = nextId + 1
           /\ sessions' = sessions \cup {id}
           /\ obj' = [obj EXCEPT ![id] = NewSession]
           /\ chromium' = [chromium EXCEPT ![id] = NewChromium]
           /\ conn' = [conn EXCEPT ![c] = [@ EXCEPT !.st = "open", !.sessionId = id]]
           /\ initTabs' = [initTabs EXCEPT ![c] = [pc |-> "titles", snap |-> 1]]
           /\ loop' = [loop EXCEPT ![c] = lb.loop]
           /\ sent' = Wire(c, lb.msgs)
    /\ UNCHANGED <<received, closeHandler, handlers, bufferedHigh, lastTabClosed>>

\* createSession resolves: the session is registered, session_started is sent,
\* the first sendTabsState is started, the listeners are installed and the frame
\* loop runs up to its first await.
CreateSessionOk(c) ==
    /\ event' = Settled(c, TRUE)
    /\ conn[c].st = "creating"
    /\ nextId \in SessionIds
    /\ LET id == nextId
           lb == LoopBody(c, FALSE, 1, FALSE, bufferedHigh[c])
       IN  /\ nextId' = nextId + 1
           /\ sessions' = sessions \cup {id}
           /\ obj' = [obj EXCEPT ![id] = NewSession]
           /\ chromium' = [chromium EXCEPT ![id] = NewChromium]
           /\ conn' = [conn EXCEPT ![c] = [@ EXCEPT !.st = "open", !.sessionId = id]]
           /\ initTabs' = [initTabs EXCEPT ![c] = [pc |-> "titles", snap |-> 1]]
           /\ loop' = [loop EXCEPT ![c] = lb.loop]
           /\ sent' = Wire(c, <<SessionStarted(c, id)>> \o lb.msgs)
    /\ UNCHANGED <<received, closeHandler, handlers, bufferedHigh, lastTabClosed>>

\* A catch that reports the failure and leaves the socket open.
CreateSessionFailOpen(c) ==
    /\ event' = Settled(c, FALSE)
    /\ conn[c].st = "creating"
    /\ conn' = [conn EXCEPT ![c] = [@ EXCEPT !.st = "refused"]]
    /\ sent' = Wire(c, <<ErrorMsg(c)>>)
    /\ UNCHANGED <<received, sessions, obj, chromium, nextId, closeHandler, handlers,
                   initTabs, loop, bufferedHigh, lastTabClosed>>

\* createSession rejects: one error message, the socket is closed, nothing else
\* is started.
CreateSessionFail(c) ==
    /\ event' = Settled(c, FALSE)
    /\ conn[c].st = "creating"
    /\ conn' = [conn EXCEPT ![c] = [@ EXCEPT !.st = "refused", !.wsOpen = FALSE]]
    /\ sent' = Wire(c, <<ErrorMsg(c)>>)
    /\ UNCHANGED <<received, sessions, obj, chromium, nextId, closeHandler, handlers,
                   initTabs, loop, bufferedHigh, lastTabClosed>>

\* A control message arrives while createSession is awaited: the "message"
\* listener is not installed yet, nothing runs and nothing is sent.
RecvEarly(c, type) ==
    /\ conn[c].st = "creating"
    /\ conn[c].wsOpen
    /\ event' = Got(c, type, 0)
    /\ sent' = <<>>
    /\ UNCHANGED <<received, sessions, obj, chromium, nextId, conn, closeHandler, handlers,
                   initTabs, loop, bufferedHigh, lastTabClosed>>

\* The socket closes.  With the "close" listener installed: closed = true and
\* destroySession runs up to its first await.  During createSession no listener
\* is installed yet and the event is lost.
SocketClose(c) ==
    /\ event' = NoEvent
    /\ conn[c].wsOpen
    /\ conn[c].st \in {"creating", "open"}
    /\ sent' = <<>>
    /\ IF conn[c].st = "open"
       THEN LET id == conn[c].sessionId
                d == destroySession(id, chromium[id], obj[id].pages)
            IN  /\ conn' = [conn EXCEPT ![c] = [@ EXCEPT !.wsOpen = FALSE, !.closed = TRUE]]
                /\ closeHandler' = [closeHandler EXCEPT ![c] =
                       Task("close", 0, d.pc, d.page, d.it, 0)]
                /\ chromium' = [chromium EXCEPT ![id] = d.ch]
       ELSE /\ conn' = [conn EXCEPT ![c] = [@ EXCEPT !.wsOpen = FALSE]]
            /\ UNCHANGED <<closeHandler, chromium>>
    /\ UNCHANGED <<received, sessions, obj, nextId, handlers, initTabs, loop, bufferedHigh,
                   lastTabClosed>>

\* The await inside the close listener's destroySession resolves or rejects.
CloseHandlerStep(c) ==
    /\ closeHandler[c].pc \in {"destroyPage", "destroyBrowser"}
    /\ \E ok \in BOOLEAN :
         LET id == conn[c].sessionId
             d == DestroyResume(id, closeHandler[c], ok)
         IN  /\ event' = Settled(c, ok)
             /\ closeHandler' = [closeHandler EXCEPT ![c] =
                    Task("close", 0, d.pc, d.page, d.it, 0)]
             /\ chromium' = [chromium EXCEPT ![id] = d.ch]
             /\ sessions' = IF d.del THEN Delete(id) ELSE sessions
    /\ sent' = <<>>
    /\ UNCHANGED <<received, obj, nextId, conn, handlers, initTabs, loop, bufferedHigh,
                   lastTabClosed>>

\* The titles of the first sendTabsState are in: tabs_state is sent.
InitTabsDone(c) ==
    /\ event' = Settled(c, TRUE)
    /\ initTabs[c].pc = "titles"
    /\ initTabs' = [initTabs EXCEPT ![c] = NoInit]
    /\ sent' = Wire(c, <<TabsState(c, conn[c].sessionId, initTabs[c].snap)>>)
    /\ UNCHANGED <<received, sessions, obj, chromium, nextId, conn, closeHandler, handlers,
                   loop, bufferedHigh, lastTabClosed>>

\* ------------------------------------------------------- control messages
\* A "message" event is delivered only while the listener is installed and the
\* socket is open.
CanRecv(c) ==
    /\ conn[c].st = "open"
    /\ conn[c].wsOpen
    /\ received[c] < MaxMsgs
    /\ Len(handlers[c]) < MaxInFlight

\* A new listener invocation ends its first run as task t (Idle: it has
\* returned), having sent msgs.
Start(c, t, msgs) ==
    /\ handlers' = [handlers EXCEPT ![c] = IF t = Idle THEN @ ELSE Append(@, t)]
    /\ received' = [received EXCEPT ![c] = @ + 1]
    /\ sent' = Wire(c, msgs)

\* The listener invocation k resumes and runs on as task t (Idle: it returns),
\* sending msgs.
Resume(c, k, t, msgs) ==
    /\ handlers' = [handlers EXCEPT ![c] =
           IF t = Idle THEN RemoveAt(@, k) ELSE [@ EXCEPT ![k] = t]]
    /\ received' = received
    /\ sent' = Wire(c, msgs)

\* getSession(sessionId) finds nothing: "Sesión no encontrada".
NotFound(c) ==
    /\ Start(c, Idle, <<ErrorMsg(c)>>)
    /\ UNCHANGED <<sessions, obj, chromium, nextId, conn, closeHandler, initTabs,
                   loop, bufferedHigh, lastTabClosed>>

\* A parse failure that is only logged.
RecvBadJsonSilent(c) ==
    /\ CanRecv(c)
    /\ event' = Got(c, "badjson", 0)
    /\ Start(c, Idle, <<>>)
    /\ UNCHANGED <<sessions, obj, chromium, nextId, conn, closeHandler, initTabs,
                   loop, bufferedHigh, lastTabClosed>>

\* JSON.parse throws: "Mensaje JSON inválido".
RecvBadJson(c) ==
    /\ CanRecv(c)
    /\ event' = Got(c, "badjson", 0)
    /\ Start(c, Idle, <<ErrorMsg(c)>>)
    /\ UNCHANGED <<sessions, obj, chromium, nextId, conn, closeHandler, initTabs,
                   loop, bufferedHigh, lastTabClosed>>

\* A type outside the switch: the default case only logs.
RecvUnknown(c) ==
    /\ CanRecv(c)
    /\ event' = Got(c, "unknown", 0)
    /\ IF getSession(conn[c].sessionId) = Absent THEN NotFound(c)
       ELSE /\ Start(c, Idle, <<>>)
            /\ UNCHANGED <<sessions, obj, chromium, nextId, conn, closeHandler,
                           initTabs, loop, bufferedHigh, lastTabClosed>>

\* The numbers of a click message: fractions, kept as numerator and
\* denominator; the x and y a client sends are the multiples of 1/ClickGrid
\* from 0 to 1.
ClickGrid == 5
Frac(n, d) == [num |-> n, den |-> d]
Fractions == {Frac(n, ClickGrid) : n \in 0..ClickGrid}

\* page.viewportSize(): what createSession and createTab have set on the page.
viewportSize(page) == [width |-> ViewportWidth, height |-> ViewportHeight]

\* A product that is cut down to whole pixels.
ScaleFloor(v, size) == Frac((v.num * size) \div v.den, 1)

\* msg.x * viewport.width, msg.y * viewport.height.
Scale(v, size) == Frac(v.num * size, v.den)

\* The "message" event of a click: the x and y of the message, the page whose
\* mouse is clicked and the point handed to page.mouse.click; Absent and
\* NoPoint when no click is dispatched.
NoPoint == [x |-> Frac(0, 0), y |-> Frac(0, 0)]
GotClick(c, x, y, page, at) ==
    [kind |-> "message", c |-> c, type |-> "click", index |-> 0,
     x |-> x, y |-> y, page |-> page, at |-> at]

\* click: the point is scaled to the viewport of the active page and
\* page.mouse.click is awaited.
RecvClick(c, x, y) ==
    /\ CanRecv(c)
    /\ LET page == getActivePage(conn[c].sessionId)
           viewport == viewportSize(page)
       IN  /\ event' = GotClick(c, x, y, page,
                                IF page = Absent THEN NoPoint
                                ELSE [x |-> Scale(x, viewport.width),
                                      y |-> Scale(y, viewport.height)])
           /\ IF getSession(conn[c].sessionId) = Absent THEN NotFound(c)
              ELSE /\ Start(c, IF page = Absent THEN Idle
                               ELSE Task("click", 0, "action", page, 0, 0), <<>>)
                   /\ UNCHANGED <<sessions, obj, chromium, nextId, conn, closeHandler,
                                  initTabs, loop, bufferedHigh, lastTabClosed>>

\* type, keydown, keyup, scroll: the call on the active page is awaited; click,
\* where the point does not matter, is a click at (0, 0).
RecvInput(c, type) ==
    IF type = "click" THEN RecvClick(c, Frac(0, ClickGrid), Frac(0, ClickGrid)) ELSE
    /\ CanRecv(c)
    /\ event' = Got(c, type, 0)
    /\ IF getSession(conn[c].sessionId) = Absent THEN NotFound(c)
       ELSE LET page == getActivePage(conn[c].sessionId)
            IN  /\ Start(c, IF page = Absent THEN Idle
                            ELSE Task(type, 0, "action", page, 0, 0), <<>>)
                /\ UNCHANGED <<sessions, obj, chromium, nextId, conn, closeHandler,
                               initTabs, loop, bufferedHigh, lastTabClosed>>

\* The awaited mouse / keyboard call resolves, or rejects into the catch.
InputDone(c, k) ==
    /\ k \in InFlight(c)
    /\ handlers[c][k].pc = "action"
    /\ \E ok \in BOOLEAN :
         /\ ok => ~isClosed(conn[c].sessionId, handlers[c][k].page)
         /\ event' = Settled(c, ok)
         /\ Resume(c, k, Idle, IF ok THEN <<>> ELSE Caught(c))
    /\ UNCHANGED <<sessions, obj, chromium, nextId, conn, closeHandler, initTabs,
                   loop, bufferedHigh, lastTabClosed>>

\* goto: normalizeUrl throws into the inner catch, else page.goto is awaited.
RecvGoto(c, url) ==
    /\ CanRecv(c)
    /\ event' = GotGoto(c, url, IF getActivePage(conn[c].sessionId) = Absent THEN NoNav
                                ELSE normalizeUrl(url))
    /\ IF getSession(conn[c].sessionId) = Absent THEN NotFound(c)
       ELSE LET id == conn[c].sessionId
                page == getActivePage(id)
            IN  /\ IF page = Absent THEN Start(c, Idle, <<>>)
                   ELSE IF normalizeUrl(url) = Throws
                   THEN Start(c, sendTabsState(Task("goto", 0, "-", 0, 0, 0), TRUE,
                                               obj[id].pages), Caught(c))
                   ELSE Start(c, Task("goto", 0, "goto", page, 0, 0), <<>>)
                /\ UNCHANGED <<sessions, obj, chromium, nextId, conn, closeHandler,
                               initTabs, loop, bufferedHigh, lastTabClosed>>

\* page.goto resolves or rejects; either way sendTabsState follows.
GotoDone(c, k) ==
    /\ k \in InFlight(c)
    /\ handlers[c][k].pc = "goto"
    /\ \E ok \in BOOLEAN :
         LET id == conn[c].sessionId
         IN  /\ ok => ~isClosed(id, handlers[c][k].page)
             /\ event' = Settled(c, ok)
             /\ Resume(c, k, sendTabsState(handlers[c][k], id \in sessions, obj[id].pages),
                       IF ok THEN <<>> ELSE Caught(c))
    /\ UNCHANGED <<sessions, obj, chromium, nextId, conn, closeHandler, initTabs,
                   loop, bufferedHigh, lastTabClosed>>

\* new_tab: normalizeUrl may throw into the outer catch; createTab awaits
\* browser.newPage (and setViewportSize, and page.goto when a url is given).
RecvNewTab(c, url) ==
    /\ CanRecv(c)
    /\ event' = Got(c, "new_tab", 0)
    /\ IF getSession(conn[c].sessionId) = Absent THEN NotFound(c)
       ELSE /\ IF url \notin {NoUrl, <<>>} /\ normalizeUrl(url) = Throws
               THEN Start(c, Idle, Caught(c))
               ELSE Start(c, Task("new_tab", 0, "newPage", 0, 0, 0), <<>>)
            /\ UNCHANGED <<sessions, obj, chromium, nextId, conn, closeHandler,
                           initTabs, loop, bufferedHigh, lastTabClosed>>

\* A createTab that pushes its page before the initial navigation: a rejection
\* leaves the page in the list.
NewTabDoneHalf(c, k) ==
    /\ k \in InFlight(c)
    /\ handlers[c][k].pc = "newPage"
    /\ LET id == conn[c].sessionId
       IN  \/ /\ chromium[id].state = "running"
              /\ event' = Settled(c, TRUE)
              /\ chromium' = [chromium EXCEPT ![id] = NewPage(@)]
              /\ obj' = [obj EXCEPT ![id] = PushPage(@, chromium[id].nPages + 1)]
              /\ Resume(c, k, sendTabsState(handlers[c][k], id \in sessions,
                                            obj'[id].pages), <<>>)
           \/ /\ event' = Settled(c, FALSE)
              /\ chromium' = [chromium EXCEPT ![id] = NewPage(@)]
              /\ obj' = [obj EXCEPT ![id] = PushPage(@, chromium[id].nPages + 1)]
              /\ Resume(c, k, Idle, Caught(c))
    /\ UNCHANGED <<sessions, nextId, conn, closeHandler, initTabs, loop,
                   bufferedHigh, lastTabClosed>>

\* createTab's awaits are over: the page is pushed and made active, then
\* sendTabsState; or one of them rejected and the catch sends an error.
NewTabDone(c, k) ==
    /\ k \in InFlight(c)
    /\ handlers[c][k].pc = "newPage"
    /\ LET id == conn[c].sessionId
       IN  \/ /\ chromium[id].state = "running"
              /\ event' = Settled(c, TRUE)
              /\ chromium' = [chromium EXCEPT ![id] = NewPage(@)]
              /\ obj' = [obj EXCEPT ![id] = PushPage(@, chromium[id].nPages + 1)]
              /\ Resume(c, k, sendTabsState(handlers[c][k], id \in sessions,
                                            obj'[id].pages), <<>>)
           \/ /\ event' = Settled(c, FALSE)
              /\ Resume(c, k, Idle, Caught(c))
              /\ UNCHANGED <<chromium, obj>>
    /\ UNCHANGED <<sessions, nextId, conn, closeHandler, initTabs, loop,
                   bufferedHigh, lastTabClosed>>

\* setActiveTab(sessionId, index)
setActiveTab(s, index) ==
    IF InRange(index, Len(s.pages)) THEN [s EXCEPT !.activeIndex = index] ELSE s

\* switch_tab: setActiveTab, then sendTabsState.
RecvSwitchTab(c, index) ==
    /\ CanRecv(c)
    /\ event' = Got(c, "switch_tab", index)
    /\ IF getSession(conn[c].sessionId) = Absent THEN NotFound(c)
       ELSE LET id == conn[c].sessionId
            IN  /\ obj' = [obj EXCEPT ![id] = setActiveTab(@, index)]
                /\ Start(c, sendTabsState(Task("switch_tab", index, "-", 0, 0, 0), TRUE,
                                          obj[id].pages), <<>>)
                /\ UNCHANGED <<sessions, chromium, nextId, conn, closeHandler,
                               initTabs, loop, bufferedHigh, lastTabClosed>>

\* closeTab after its page.close(): with no tab left destroySession is entered,
\* else activeIndex is rebalanced; back in the listener, sendTabsState follows
\* when the session is still registered.
closeTabTail(id, t, ch, s) ==
    IF Len(s.pages) = 0
    THEN LET d == destroySession(id, ch, s.pages)
         IN  [task |-> IF d.pc = "done" THEN Idle
                       ELSE Task(t.type, 0, d.pc, d.page, d.it, 0),
              ch |-> d.ch, obj |-> s]
    ELSE LET r == [s EXCEPT !.activeIndex = Rebalance(s.activeIndex, Len(s.pages))]
         IN  [task |-> sendTabsState(t, id \in sessions, r.pages), ch |-> ch, obj |-> r]

\* close_tab: closeTab up to its await of page.close().
RecvCloseTab(c, index) ==
    /\ CanRecv(c)
    /\ event' = Got(c, "close_tab", index)
    /\ IF getSession(conn[c].sessionId) = Absent THEN NotFound(c)
       ELSE LET id == conn[c].sessionId
                t == Task("close_tab", index, "-", 0, 0, 0)
            IN  /\ IF ~InRange(index, Len(obj[id].pages))
                   THEN /\ Start(c, sendTabsState(t, TRUE, obj[id].pages), <<>>)
                        /\ UNCHANGED <<obj, chromium, lastTabClosed>>
                   ELSE LET page == obj[id].pages[index + 1]
                            s == Splice(obj[id], index)
                            tail == closeTabTail(id, t, chromium[id], s)
                        IN  /\ lastTabClosed' = [lastTabClosed EXCEPT ![c] =
                                   @ \/ Len(s.pages) = 0]
                            /\ IF isClosed(id, page)
                               THEN /\ obj' = [obj EXCEPT ![id] = tail.obj]
                                    /\ chromium' = [chromium EXCEPT ![id] = tail.ch]
                                    /\ Start(c, tail.task, <<>>)
                               ELSE /\ obj' = [obj EXCEPT ![id] = s]
                                    /\ chromium' = [chromium EXCEPT ![id] =
                                           CallPageClose(@, page)]
                                    /\ Start(c, Task("close_tab", index, "pageClose",
                                                     page, 0, 0), <<>>)
                /\ UNCHANGED <<sessions, nextId, conn, closeHandler, initTabs, loop,
                               bufferedHigh>>

\* closeTab's page.close() resolves, or rejects into the catch that logs.
CloseTabPageDone(c, k) ==
    /\ k \in InFlight(c)
    /\ handlers[c][k].pc = "pageClose"
    /\ \E ok \in BOOLEAN :
         LET id == conn[c].sessionId
             t == handlers[c][k]
             ch == IF ok THEN PageClosed(chromium[id], t.page) ELSE chromium[id]
             tail == closeTabTail(id, t, ch, obj[id])
         IN  /\ event' = Settled(c, ok)
             /\ obj' = [obj EXCEPT ![id] = tail.obj]
             /\ chromium' = [chromium EXCEPT ![id] = tail.ch]
             /\ Resume(c, k, tail.task, <<>>)
    /\ UNCHANGED <<sessions, nextId, conn, closeHandler, initTabs, loop,
                   bufferedHigh, lastTabClosed>>

\* The await inside closeTab's destroySession resolves or rejects; when
\* destroySession returns, the listener finds no session and sends nothing.
HandlerDestroyStep(c, k) ==
    /\ k \in InFlight(c)
    /\ handlers[c][k].pc \in {"destroyPage", "destroyBrowser"}
    /\ \E ok \in BOOLEAN :
         LET id == conn[c].sessionId
             t == handlers[c][k]
             d == DestroyResume(id, t, ok)
         IN  /\ event' = Settled(c, ok)
             /\ chromium' = [chromium EXCEPT ![id] = d.ch]
             /\ sessions' = IF d.del THEN Delete(id) ELSE sessions
             /\ Resume(c, k, IF d.pc = "done" THEN Idle
                             ELSE Task(t.type, 0, d.pc, d.page, d.it, 0), <<>>)
    /\ UNCHANGED <<obj, nextId, conn, closeHandler, initTabs, loop, bufferedHigh,
                   lastTabClosed>>

\* The titles are in: tabs_state is sent with the activeIndex of this moment.
TitlesDone(c, k) ==
    /\ k \in InFlight(c)
    /\ handlers[c][k].pc = "titles"
    /\ event' = Settled(c, TRUE)
    /\ Resume(c, k, Idle, <<TabsState(c, conn[c].sessionId, handlers[c][k].snap)>>)
    /\ UNCHANGED <<sessions, obj, chromium, nextId, conn, closeHandler, initTabs,
                   loop, bufferedHigh, lastTabClosed>>

\* -------------------------------------------------------------- frame loop
\* A frame loop that is entered again after it has ended.
LoopWakeAgain(c) ==
    /\ event' = Timer(c)
    /\ loop[c].pc \in {"sleep", "terminated"}
    /\ LET id == conn[c].sessionId
           page == getActivePage(id)
           lb == LoopBody(c, conn[c].closed, page,
                          page # Absent /\ isClosed(id, page), bufferedHigh[c])
       IN  /\ loop' = [loop EXCEPT ![c] = lb.loop]
           /\ sent' = Wire(c, lb.msgs)
    /\ UNCHANGED <<received, sessions, obj, chromium, nextId, conn, closeHandler, handlers,
                   initTabs, bufferedHigh, lastTabClosed>>

\* A sleep is over: the while loop runs from its head to its next await.
LoopWake(c) ==
    /\ event' = Timer(c)
    /\ loop[c].pc = "sleep"
    /\ LET id == conn[c].sessionId
           page == getActivePage(id)
           lb == LoopBody(c, conn[c].closed, page,
                          page # Absent /\ isClosed(id, page), bufferedHigh[c])
       IN  /\ loop' = [loop EXCEPT ![c] = lb.loop]
           /\ sent' = Wire(c, lb.msgs)
    /\ UNCHANGED <<received, sessions, obj, chromium, nextId, conn, closeHandler, handlers,
                   initTabs, bufferedHigh, lastTabClosed>>

\* A frame loop whose catch ends the loop without telling the client.
ScreenshotDoneSilent(c) ==
    /\ loop[c].pc = "capture"
    /\ \/ /\ ~isClosed(conn[c].sessionId, loop[c].page)
          /\ event' = Settled(c, TRUE)
          /\ loop' = [loop EXCEPT ![c] = [pc |-> "sleep", page |-> 0, exit |-> "-"]]
          /\ sent' = Wire(c, <<Msg(c, "frame", 0, 0)>>)
       \/ /\ event' = Settled(c, FALSE)
          /\ loop' = [loop EXCEPT ![c] = Terminated("error")]
          /\ sent' = <<>>
    /\ UNCHANGED <<received, sessions, obj, chromium, nextId, conn, closeHandler, handlers,
                   initTabs, bufferedHigh, lastTabClosed>>

\* page.screenshot resolves: the frame is sent and the loop sleeps; or it
\* rejects: a best-effort error message and the loop ends.
ScreenshotDone(c) ==
    /\ loop[c].pc = "capture"
    /\ \/ /\ ~isClosed(conn[c].sessionId, loop[c].page)
          /\ event' = Settled(c, TRUE)
          /\ loop' = [loop EXCEPT ![c] = [pc |-> "sleep", page |-> 0, exit |-> "-"]]
          /\ sent' = Wire(c, <<Msg(c, "frame", 0, 0)>>)
       \/ /\ event' = Settled(c, FALSE)
          /\ loop' = [loop EXCEPT ![c] = Terminated("error")]
          /\ sent' = Wire(c, <<ErrorMsg(c)>>)
    /\ UNCHANGED <<received, sessions, obj, chromium, nextId, conn, closeHandler, handlers,
                   initTabs, bufferedHigh, lastTabClosed>>

\* The transport's outbound queue crosses the threshold, either way.
SetBuffered(c) ==
    /\ event' = NoEvent
    /\ conn[c].st = "open"
    /\ conn[c].wsOpen
    /\ bufferedHigh' = [bufferedHigh EXCEPT ![c] = ~@]
    /\ sent' = <<>>
    /\ UNCHANGED <<received, sessions, obj, chromium, nextId, conn, closeHandler, handlers,
                   initTabs, loop, lastTabClosed>>

\* ------------------------------------------------------------ specification
\* The connection the single-connection specifications drive.  Sessions share
\* no state, so one connection shows everything a claim about one session needs.
Solo == {1}

\* The whole service on one connection: every control message, the socket's
\* close, the frame loop and the transport's backpressure.
Next ==
    \E c \in Solo :
        \/ Connect(c)
        \/ CreateSessionOk(c)
        \/ CreateSessionFail(c)
        \/ SocketClose(c)
        \/ CloseHandlerStep(c)
        \/ InitTabsDone(c)
        \/ \E type \in InputTypes : RecvEarly(c, type)
        \/ RecvBadJson(c)
        \/ RecvUnknown(c)
        \/ \E type \in InputTypes : RecvInput(c, type)
        \/ \E url \in Urls : RecvGoto(c, url)
        \/ \E url \in Urls \cup {NoUrl} : RecvNewTab(c, url)
        \/ \E index \in Indices : RecvSwitchTab(c, index)
        \/ \E index \in Indices : RecvCloseTab(c, index)
        \/ \E k \in InFlight(c) :
              \/ InputDone(c, k)
              \/ GotoDone(c, k)
              \/ NewTabDone(c, k)
              \/ CloseTabPageDone(c, k)
              \/ HandlerDestroyStep(c, k)
              \/ TitlesDone(c, k)
        \/ LoopWake(c)
        \/ ScreenshotDone(c)
        \/ SetBuffered(c)

Spec == Init /\ [][Next]_vars

\* The session registry under the tab operations: new_tab, switch_tab and
\* close_tab messages and the socket's close.  The frame loop and the first
\* sendTabsState only read the session and are left suspended.
NextTabs ==
    \E c \in Solo :
        \/ Connect(c)
        \/ CreateSessionOk(c)
        \/ CreateSessionFail(c)
        \/ SocketClose(c)
        \/ CloseHandlerStep(c)
        \/ RecvNewTab(c, NoUrl)
        \/ \E index \in Indices : RecvSwitchTab(c, index)
        \/ \E index \in Indices : RecvCloseTab(c, index)
        \/ \E k \in InFlight(c) :
              \/ NewTabDone(c, k)
              \/ CloseTabPageDone(c, k)
              \/ HandlerDestroyStep(c, k)
              \/ TitlesDone(c, k)

SpecTabs == Init /\ [][NextTabs]_vars

\* The message listener under every kind of control message and the socket's
\* close.  The frame loop and the first sendTabsState are left suspended.
NextMsgs ==
    \E c \in Solo :
        \/ Connect(c)
        \/ CreateSessionOk(c)
        \/ CreateSessionFail(c)
        \/ \E type \in InputTypes : RecvEarly(c, type)
        \/ SocketClose(c)
        \/ CloseHandlerStep(c)
        \/ RecvBadJson(c)
        \/ RecvUnknown(c)
        \/ \E type \in InputTypes : RecvInput(c, type)
        \/ \E url \in Urls : RecvGoto(c, url)
        \/ \E url \in Urls \cup {NoUrl} : RecvNewTab(c, url)
        \/ \E index \in Indices : RecvSwitchTab(c, index)
        \/ \E index \in Indices : RecvCloseTab(c, index)
        \/ \E k \in InFlight(c) :
              \/ InputDone(c, k)
              \/ GotoDone(c, k)
              \/ NewTabDone(c, k)
              \/ CloseTabPageDone(c, k)
              \/ HandlerDestroyStep(c, k)
              \/ TitlesDone(c, k)

SpecMsgs == Init /\ [][NextMsgs]_vars

\* One connection whose client sends goto messages, one at a time, with every
\* url there is.
NextGoto ==
    \E c \in Solo :
        \/ Connect(c)
        \/ CreateSessionOk(c)
        \/ SocketClose(c)
        \/ CloseHandlerStep(c)
        \/ handlers[c] = <<>> /\ \E url \in RawUrls : RecvGoto(c, url)
        \/ \E k \in InFlight(c) :
              \/ GotoDone(c, k)
              \/ TitlesDone(c, k)

SpecGoto == Init /\ [][NextGoto]_vars

\* The start of one connection: the creation of its session, the messages that
\* follow it (the first tabs_state, frames, errors) and the socket's close.
NextStart ==
    \E c \in Solo :
        \/ Connect(c)
        \/ CreateSessionOk(c)
        \/ CreateSessionFail(c)
        \/ \E type \in InputTypes : RecvEarly(c, type)
        \/ SocketClose(c)
        \/ CloseHandlerStep(c)
        \/ InitTabsDone(c)
        \/ RecvBadJson(c)
        \/ LoopWake(c)
        \/ ScreenshotDone(c)
        \/ SetBuffered(c)

SpecStart == Init /\ [][NextStart]_vars

\* One connection whose client clicks at every point of the grid while it opens
\* tabs and switches between them.
NextClick ==
    \E c \in Solo :
        \/ Connect(c)
        \/ CreateSessionOk(c)
        \/ SocketClose(c)
        \/ CloseHandlerStep(c)
        \/ \E x, y \in Fractions : RecvClick(c, x, y)
        \/ RecvNewTab(c, NoUrl)
        \/ \E index \in Indices : RecvSwitchTab(c, index)
        \/ \E k \in InFlight(c) :
              \/ InputDone(c, k)
              \/ NewTabDone(c, k)
              \/ TitlesDone(c, k)

SpecClick == Init /\ [][NextClick]_vars

\* The same with what the event loop and Playwright guarantee: createSession
\* resolves or rejects, a sleep's timer fires, and an awaited page.screenshot,
\* page.title, page.close or browser.close resolves or rejects.  Messages and
\* the socket's close are up to the client.
FairStart ==
    /\ SpecStart
    /\ \A c \in Solo :
          /\ WF_vars(CreateSessionOk(c) \/ CreateSessionFail(c))
          /\ WF_vars(InitTabsDone(c))
          /\ WF_vars(LoopWake(c))
          /\ WF_vars(ScreenshotDone(c))
          /\ WF_vars(CloseHandlerStep(c))

\* The tabs_state messages of one connection whose client sends its tab
\* messages one at a time, each after the handler of the one before has
\* returned; the first sendTabsState, which handleConnection does not await,
\* runs beside them.
NextSnapshot ==
    \E c \in Solo :
        \/ Connect(c)
        \/ CreateSessionOk(c)
        \/ InitTabsDone(c)
        \/ /\ handlers[c] = <<>>
           /\ \/ RecvNewTab(c, NoUrl)
              \/ \E index \in Indices : RecvSwitchTab(c, index) \/ RecvCloseTab(c, index)
        \/ \E k \in InFlight(c) :
              \/ NewTabDone(c, k)
              \/ CloseTabPageDone(c, k)
              \/ HandlerDestroyStep(c, k)
              \/ TitlesDone(c, k)

SpecSnapshot == Init /\ [][NextSnapshot]_vars

\* Messages that do not parse, among the tab messages of one connection.
NextParse ==
    \E c \in Solo :
        \/ Connect(c)
        \/ CreateSessionOk(c)
        \/ SocketClose(c)
        \/ CloseHandlerStep(c)
        \/ RecvBadJson(c)
        \/ RecvNewTab(c, NoUrl)
        \/ \E index \in Indices : RecvSwitchTab(c, index)
        \/ \E k \in InFlight(c) :
              \/ NewTabDone(c, k)
              \/ TitlesDone(c, k)

SpecParse == Init /\ [][NextParse]_vars

\* The control messages whose handler awaits a browser call that may throw:
\* the mouse and keyboard messages, goto and new_tab, with the socket's close.
NextActions ==
    \E c \in Solo :
        \/ Connect(c)
        \/ CreateSessionOk(c)
        \/ CreateSessionFail(c)
        \/ SocketClose(c)
        \/ CloseHandlerStep(c)
        \/ \E type \in InputTypes : RecvInput(c, type)
        \/ \E url \in Urls : RecvGoto(c, url)
        \/ \E url \in Urls \cup {NoUrl} : RecvNewTab(c, url)
        \/ \E k \in InFlight(c) :
              \/ InputDone(c, k)
              \/ GotoDone(c, k)
              \/ NewTabDone(c, k)
              \/ TitlesDone(c, k)

SpecActions == Init /\ [][NextActions]_vars

\* The new_tab messages of one connection, with and without url, among its
\* switch_tab messages and the socket's close: the only awaits that reject
\* are those of createTab.
NextOpen ==
    \E c \in Solo :
        \/ Connect(c)
        \/ CreateSessionOk(c)
        \/ SocketClose(c)
        \/ CloseHandlerStep(c)
        \/ \E url \in Urls \cup {NoUrl} : RecvNewTab(c, url)
        \/ \E index \in Indices : RecvSwitchTab(c, index)
        \/ \E k \in InFlight(c) :
              \/ NewTabDone(c, k)
              \/ TitlesDone(c, k)

SpecOpen == Init /\ [][NextOpen]_vars

\* The frame loop of one connection under backpressure, with the operations
\* that take its page away: new_tab and close_tab messages and the socket's
\* close.
NextStream ==
    \E c \in Solo :
        \/ Connect(c)
        \/ CreateSessionOk(c)
        \/ CreateSessionFail(c)
        \/ SocketClose(c)
        \/ CloseHandlerStep(c)
        \/ RecvNewTab(c, NoUrl)
        \/ \E index \in Indices : RecvCloseTab(c, index)
        \/ \E k \in InFlight(c) :
              \/ NewTabDone(c, k)
              \/ CloseTabPageDone(c, k)
              \/ HandlerDestroyStep(c, k)
              \/ TitlesDone(c, k)
        \/ LoopWake(c)
        \/ ScreenshotDone(c)
        \/ SetBuffered(c)

SpecStream == Init /\ [][NextStream]_vars

\* The same with what the event loop and Playwright guarantee: a sleep's timer
\* fires, and an awaited page.screenshot, page.close, browser.close, newPage or
\* page.title resolves or rejects (Playwright bounds each with its own
\* timeout).  Messages and the socket's close are up to the client.
\* The frame loop of one connection after its end: the loop's sleeps and
\* captures, new_tab and close_tab 0 messages and the socket's close.
NextEnded ==
    \E c \in Solo :
        \/ Connect(c)
        \/ CreateSessionOk(c)
        \/ SocketClose(c)
        \/ CloseHandlerStep(c)
        \/ RecvNewTab(c, NoUrl)
        \/ RecvCloseTab(c, 0)
        \/ \E k \in InFlight(c) :
              \/ NewTabDone(c, k)
              \/ CloseTabPageDone(c, k)
              \/ HandlerDestroyStep(c, k)
              \/ TitlesDone(c, k)
        \/ LoopWake(c)
        \/ ScreenshotDone(c)

SpecEnded == Init /\ [][NextEnded]_vars

FairStream ==
    /\ SpecStream
    /\ \A c \in Solo :
          /\ WF_vars(LoopWake(c))
          /\ WF_vars(ScreenshotDone(c))
          /\ WF_vars(CloseHandlerStep(c))
          /\ WF_vars(\E k \in InFlight(c) : NewTabDone(c, k))
          /\ WF_vars(\E k \in InFlight(c) : CloseTabPageDone(c, k))
          /\ WF_vars(\E k \in InFlight(c) : HandlerDestroyStep(c, k))
          /\ WF_vars(\E k \in InFlight(c) : TitlesDone(c, k))

\* The frame loop of a one-tab session under backpressure: the loop's sleeps
\* and captures, the queue crossing the threshold, close_tab and the socket's
\* close.
NextThrottle ==
    \E c \in Solo :
        \/ Connect(c)
        \/ CreateSessionOk(c)
        \/ CreateSessionFail(c)
        \/ SocketClose(c)
        \/ CloseHandlerStep(c)
        \/ \E index \in Indices : RecvCloseTab(c, index)
        \/ \E k \in InFlight(c) :
              \/ CloseTabPageDone(c, k)
              \/ HandlerDestroyStep(c, k)
              \/ TitlesDone(c, k)
        \/ LoopWake(c)
        \/ ScreenshotDone(c)
        \/ SetBuffered(c)

SpecThrottle == Init /\ [][NextThrottle]_vars

\* The timers of the loop's sleeps fire and page.screenshot settles (it has a
\* timeout); the queue may stay above the threshold for ever.
FairThrottle ==
    /\ SpecThrottle
    /\ \A c \in Solo :
          /\ WF_vars(LoopWake(c))
          /\ WF_vars(ScreenshotDone(c))

\* Two connections, each with its session and its frame loop: connection 1
\* gets goto messages, connection 2 gets clicks.  An awaited page.goto with
\* waitUntil "networkidle" may stay pending for as long as the page keeps the
\* network busy: GotoDone is under no fairness, while timers fire and clicks,
\* titles and screenshots settle.
Pair == {1, 2}

NextPair ==
    \/ \E c \in Pair :
          \/ Connect(c)
          \/ CreateSessionOk(c)
          \/ \E k \in InFlight(c) : TitlesDone(c, k)
          \/ LoopWake(c)
          \/ ScreenshotDone(c)
    \/ RecvGoto(1, <<"example.com">>)
    \/ \E k \in InFlight(1) : GotoDone(1, k)
    \/ RecvInput(2, "click")
    \/ \E k \in InFlight(2) : InputDone(2, k)

SpecPair == Init /\ [][NextPair]_vars

FairPair ==
    /\ SpecPair
    /\ \A c \in Pair :
          /\ WF_vars(LoopWake(c))
          /\ WF_vars(ScreenshotDone(c))
          /\ WF_vars(\E k \in InFlight(c) : InputDone(c, k))
          /\ WF_vars(\E k \in InFlight(c) : TitlesDone(c, k))

\* Two connections, each with its session. The client of the first sends tab
\* messages, one at a time, and closes its socket, and its frame loop runs; the
\* client of the second opens one tab.
NextPeers ==
    \/ \E c \in Pair :
          \/ Connect(c)
          \/ CreateSessionOk(c)
          \/ \E k \in InFlight(c) :
                \/ NewTabDone(c, k)
                \/ TitlesDone(c, k)
    \/ received[2] = 0 /\ RecvNewTab(2, NoUrl)
    \/ SocketClose(1)
    \/ CloseHandlerStep(1)
    \/ /\ handlers[1] = <<>>
       /\ \/ RecvNewTab(1, NoUrl)
          \/ \E index \in Indices : RecvSwitchTab(1, index) \/ RecvCloseTab(1, index)
    \/ \E k \in InFlight(1) :
          \/ CloseTabPageDone(1, k)
          \/ HandlerDestroyStep(1, k)
    \/ LoopWake(1)
    \/ ScreenshotDone(1)

SpecPeers == Init /\ [][NextPeers]_vars

\* ------------------------------------------------------------------ claims
Sid(c) == conn[c].sessionId

Created(c) == Sid(c) # Absent

\* A closeTab of the connection is between its splice and its rebalancing.
ClosePending(c) == \E k \in InFlight(c) : handlers[c][k].pc = "pageClose"

\* C1: after every new_tab, switch_tab or close_tab that has completed, a
\* session that keeps at least one tab has 0 <= activeIndex < len(tabs): it
\* holds whenever no closeTab of the session is still between removing its tab
\* and rebalancing.
C1_ActiveIndexInRange ==
    \A c \in Conns :
        (Created(c) /\ ~ClosePending(c) /\ Len(obj[Sid(c)].pages) > 0)
            => obj[Sid(c)].activeIndex \in 0..(Len(obj[Sid(c)].pages) - 1)

\* C1 witness: tabs were opened and one was closed, every message has been
\* handled to its end and the session keeps two tabs or more.
C1_Witness ==
    \E c \in Conns :
        /\ Created(c) /\ Sid(c) \in sessions
        /\ received[c] >= 3 /\ handlers[c] = <<>>
        /\ Len(obj[Sid(c)].pages) >= 2
        /\ chromium[Sid(c)].closedPages # {}

\* C2: tabs are closed and the browser process is terminated exactly once per
\* session, also when the close listener and closeTab on the last tab both
\* call destroySession: no page and no browser gets a second close call.
C2_DestroyOnce ==
    \A id \in SessionIds :
        /\ chromium[id].closeCalls <= 1
        /\ \A p \in 1..chromium[id].nPages : chromium[id].pageCloseCalls[p] <= 1

\* C3: control messages of one connection are handled one at a time: at most
\* one listener invocation of a connection is in progress.
C3_OneAtATime == \A c \in Conns : Len(handlers[c]) <= 1

\* C4: the active-tab lookup of a registered session with at least one tab
\* returns a tab, whatever operation on the session is in progress.
C4_LookupFindsTab ==
    \A id \in sessions : Len(obj[id].pages) > 0 => getActivePage(id) # Absent

\* C5: no session that getSession returns has an empty tab list.
C5_NoEmptySession ==
    \A id \in SessionIds : getSession(id) # Absent => Len(obj[id].pages) > 0

\* C6, its final result: once the socket has closed and the close listener has
\* returned, the session is no longer registered and its browser process is
\* terminated (unless browser.close itself was refused).
C6_CloseTearsDown ==
    \A c \in Conns :
        (closeHandler[c].type = "close" /\ closeHandler[c].pc = "done")
            => /\ Sid(c) \notin sessions
               /\ chromium[Sid(c)].state = "closed" \/ chromium[Sid(c)].closeFailed

\* The listener invocation k of connection c resumes in this step: it returns
\* (and leaves the list) or runs on to another await.
Resumed(c, k) ==
    /\ received'[c] = received[c]
    /\ \/ handlers'[c] = RemoveAt(handlers[c], k)
       \/ /\ Len(handlers'[c]) = Len(handlers[c])
          /\ handlers'[c][k] # handlers[c][k]
          /\ \A j \in InFlight(c) \ {k} : handlers'[c][j] = handlers[c][j]

\* A close_tab message is received in this step and its closeTab removes a tab.
Spliced(c) ==
    /\ received'[c] = received[c] + 1
    /\ Len(handlers'[c]) = Len(handlers[c]) + 1
    /\ handlers'[c][Len(handlers'[c])].pc = "pageClose"

\* C7 as stated: closeTab in range, a tab remaining: activeIndex becomes
\* len(tabs)-1 when the removed index was at or before the previous activeIndex
\* or activeIndex exceeds the remaining bound, and is unchanged otherwise.
C7_RebalanceAsStated ==
    [][\A c \in Conns : \A k \in InFlight(c) :
          (/\ handlers[c][k].pc = "pageClose"
           /\ Resumed(c, k)
           /\ Len(obj[Sid(c)].pages) > 0)
          => obj'[Sid(c)].activeIndex =
                IF \/ handlers[c][k].index <= obj[Sid(c)].activeIndex
                   \/ obj[Sid(c)].activeIndex >= Len(obj[Sid(c)].pages)
                THEN Len(obj[Sid(c)].pages) - 1
                ELSE obj[Sid(c)].activeIndex]_vars

\* C7 amended: closeTab in range removes exactly the tab at its index and
\* leaves activeIndex alone for the moment; when its page.close is over and a
\* tab remains, activeIndex becomes len(tabs)-1 if it is at or beyond len(tabs)
\* and is unchanged otherwise, wherever the removed index was.
C7_RebalanceAmended ==
    [][\A c \in Conns :
          /\ Spliced(c) =>
                LET t == handlers'[c][Len(handlers'[c])]
                    s == obj[Sid(c)]
                IN  /\ t.index \in 0..(Len(s.pages) - 1)
                    /\ t.page = s.pages[t.index + 1]
                    /\ Len(obj'[Sid(c)].pages) = Len(s.pages) - 1
                    /\ \A j \in 1..(Len(s.pages) - 1) :
                          obj'[Sid(c)].pages[j] =
                              IF j <= t.index THEN s.pages[j] ELSE s.pages[j + 1]
                    /\ obj'[Sid(c)].activeIndex = s.activeIndex
          /\ \A k \in InFlight(c) :
                (/\ handlers[c][k].pc = "pageClose"
                 /\ Resumed(c, k)
                 /\ Len(obj[Sid(c)].pages) > 0)
                => /\ obj'[Sid(c)].pages = obj[Sid(c)].pages
                   /\ obj'[Sid(c)].activeIndex =
                         IF obj[Sid(c)].activeIndex >= Len(obj[Sid(c)].pages)
                         THEN Len(obj[Sid(c)].pages) - 1
                         ELSE obj[Sid(c)].activeIndex]_vars

\* C7 witness: a closeTab has removed a tab at or before activeIndex, two tabs
\* or more remain and activeIndex is not the last index: the rebalancing that
\* follows leaves activeIndex where it is.
C7_Witness ==
    \E c \in Conns : \E k \in InFlight(c) :
        /\ handlers[c][k].pc = "pageClose"
        /\ handlers[c][k].index <= obj[Sid(c)].activeIndex
        /\ obj[Sid(c)].activeIndex < Len(obj[Sid(c)].pages) - 1

\* C8: the frame loop ends at its active-tab check only when the session is no
\* longer registered or has no tab left.
C8_NoPageOnlyWhenGone ==
    [][\A c \in Conns :
          (loop[c].pc # "terminated" /\ loop'[c].exit = "noPage")
          => (Sid(c) \notin sessions \/ Len(obj[Sid(c)].pages) = 0)]_vars

\* C9: once close_tab has closed the only tab of a session, every control
\* message received on that connection is answered with an error message and
\* changes nothing of the session.
C9_ErrorAfterLastTab ==
    [][\A c \in Conns :
          (lastTabClosed[c] /\ received'[c] # received[c])
          => /\ sent' = <<ErrorMsg(c)>>
             /\ obj' = obj /\ sessions' = sessions /\ chromium' = chromium
             /\ handlers'[c] = handlers[c]]_vars

\* C10: when destroySession removes the session record, a close of every tab of
\* the session has been attempted and the termination of the browser process
\* has been started, whether or not a tab's close failed.
C10_TeardownBeforeRemoval ==
    [][\A id \in SessionIds :
          (id \in sessions /\ id \notin sessions')
          => /\ chromium'[id].closeCalls >= 1
             /\ \A j \in 1..Len(obj[id].pages) :
                   \/ obj[id].pages[j] \in chromium'[id].closedPages
                   \/ chromium'[id].pageCloseCalls[obj[id].pages[j]] >= 1]_vars

\* A destroySession called for the session of connection c returns in this
\* step: in the close listener, or in closeTab (where the listener then finds
\* no session and returns).
DestroyReturns(c) ==
    \/ /\ closeHandler'[c] # closeHandler[c]
       /\ closeHandler'[c].pc = "done"
    \/ \E k \in InFlight(c) :
          /\ \/ handlers[c][k].pc \in {"destroyPage", "destroyBrowser"}
             \/ handlers[c][k].pc = "pageClose" /\ Len(obj[Sid(c)].pages) = 0
          /\ received'[c] = received[c]
          /\ handlers'[c] = RemoveAt(handlers[c], k)

\* C11: whenever destroySession returns for a session id, the id is no longer
\* registered, whether or not a page's or the browser's close was refused.
C11_AbsentAfterDestroy ==
    [][\A c \in Conns : DestroyReturns(c) => getSession(Sid(c))' = Absent]_vars

\* C11 witness: the close listener's destroySession has returned after a
\* refused close left the browser process running, and the id is gone.
C11_Witness ==
    \E c \in Conns :
        /\ closeHandler[c].type = "close" /\ closeHandler[c].pc = "done"
        /\ chromium[Sid(c)].state = "running"
        /\ Sid(c) \notin sessions

\* C12: a destroySession called after the session was removed, or for an id
\* that was never registered, returns at once: the registry, the tab lists and
\* the browser processes are as before, no page.close and no browser.close is
\* issued.  The calls are the close listener's (the socket closes after
\* close_tab destroyed the session) and closeTab's (its page.close is over
\* after the close listener destroyed the session).
C12_DestroyIdempotent ==
    [][/\ \A id \in SessionIds \ sessions :
             destroySession(id, chromium[id], obj[id].pages)
                 = [pc |-> "done", page |-> 0, it |-> 0, ch |-> chromium[id]]
       /\ \A c \in Conns :
             (Created(c) /\ Sid(c) \notin sessions) =>
                /\ (~conn[c].closed /\ conn'[c].closed)
                      => /\ closeHandler'[c].pc = "done"
                         /\ sessions' = sessions /\ obj' = obj /\ chromium' = chromium
                /\ \A k \in InFlight(c) :
                      (/\ handlers[c][k].pc = "pageClose"
                       /\ Resumed(c, k)
                       /\ Len(obj[Sid(c)].pages) = 0)
                      => /\ handlers'[c] = RemoveAt(handlers[c], k)
                         /\ sessions' = sessions /\ obj' = obj
                         /\ chromium'[Sid(c)].closeCalls = chromium[Sid(c)].closeCalls
                         /\ chromium'[Sid(c)].pageCloseCalls
                                = chromium[Sid(c)].pageCloseCalls]_vars

\* C12 witness: the one control message was a close_tab on the only tab and the
\* socket has closed; closeTab and the close listener have both called
\* destroySession and returned, and browser.close was issued once.
C12_Witness ==
    \E c \in Conns :
        /\ conn[c].closed /\ closeHandler[c].pc = "done"
        /\ lastTabClosed[c] /\ received[c] = 1 /\ handlers[c] = <<>>
        /\ Sid(c) \notin sessions
        /\ chromium[Sid(c)].closeCalls = 1

\* The message listener of connection c runs on a control message of one of
\* these types in this step.
Receives(c, types) ==
    /\ event'.kind = "message" /\ event'.c = c /\ event'.type \in types
    /\ received'[c] = received[c] + 1

\* C13: a control message whose type is none of the recognised ones is answered
\* with one error message on its connection, changes nothing of the sessions
\* and leaves the connection as it is.
C13_UnknownAnswered ==
    [][\A c \in Conns :
          Receives(c, {"unknown"})
          => /\ sent' = <<ErrorMsg(c)>>
             /\ sessions' = sessions /\ obj' = obj /\ chromium' = chromium
             /\ conn' = conn]_vars

\* C14: every control message that arrives on an established connection is
\* executed (its handler changes the session or goes on to an awaited call) or
\* answered with an error message; only a switch_tab or close_tab whose index
\* is out of range may have neither effect nor reply.
C14_NoSilentDrop ==
    [][\A c \in Conns :
          (event'.kind = "message" /\ event'.c = c)
          => \/ \E i \in 1..Len(sent') : sent'[i] = ErrorMsg(c)
             \/ Len(handlers'[c]) = Len(handlers[c]) + 1
             \/ obj' # obj
             \/ /\ event'.type \in {"switch_tab", "close_tab"}
                /\ ~InRange(event'.index, Len(obj[Sid(c)].pages))]_vars

\* A frame goes out to connection c in this step.
FrameSent(c) == \E i \in 1..Len(sent) : sent[i] = Msg(c, "frame", 0, 0)

\* The frame loop of connection c has what a capture needs: the connection is
\* open and the active-tab lookup returns a page that is not closed.
CanCapture(c) ==
    /\ conn[c].wsOpen /\ ~conn[c].closed
    /\ getActivePage(Sid(c)) # Absent
    /\ ~isClosed(Sid(c), getActivePage(Sid(c)))

\* C15: a loop cycle that finds ws.bufferedAmount above the threshold takes no
\* capture, sends no frame and does not end the loop; a capture starts only at
\* a check that finds the queue at or below the threshold, and a frame is sent
\* only in the step in which its capture resolves, so nothing is sent while the
\* queue stays above the threshold and no frame is kept for later.
C15_BackpressureSkips ==
    [][\A c \in Conns :
          /\ (loop[c].pc = "sleep" /\ bufferedHigh[c] /\ CanCapture(c))
                => (loop'[c].pc = "sleep" /\ ~FrameSent(c)')
          /\ (loop[c].pc # "capture" /\ loop'[c].pc = "capture") => ~bufferedHigh[c]
          /\ FrameSent(c)' => (loop[c].pc = "capture" /\ loop'[c].pc = "sleep")]_vars

\* C15 witness: a sleep of the loop is over, the cycle found the queue above
\* the threshold with a page to capture, and the loop sleeps again.
C15_Witness ==
    \E c \in Conns :
        /\ event = Timer(c)
        /\ loop[c].pc = "sleep" /\ bufferedHigh[c] /\ CanCapture(c)

\* C16: once the frame loop of a connection has been started, whenever the
\* queue is at or below the threshold, the connection is open and the session
\* has an active tab that can be captured, a frame is sent, unless the queue
\* rises again, the connection closes, the active tab goes away or a capture
\* itself fails.
C16_FramesResume ==
    \A c \in Conns :
        (loop[c].pc # "off" /\ ~bufferedHigh[c] /\ CanCapture(c))
            ~> \/ FrameSent(c)
               \/ bufferedHigh[c]
               \/ ~CanCapture(c)
               \/ loop[c].exit = "error"

\* A page.goto of connection c is awaited.
Hung(c) == \E k \in InFlight(c) : handlers[c][k].pc = "goto"

\* A click or a sendTabsState of connection c is awaited.
Busy(c) == \E k \in InFlight(c) : handlers[c][k].pc \in {"action", "titles"}

\* C17: while a page.goto of connection 1 stays pending, the frame loop of
\* its own session and the frame loop of the other session go on to send a
\* frame (unless a capture fails), and the other awaited handlers of both
\* connections complete.
C17_HungGotoBlocksNothing ==
    \A d \in Pair :
        /\ (Hung(1) /\ loop[d].pc \in {"sleep", "capture"})
              ~> (FrameSent(d) \/ loop[d].exit = "error")
        /\ (Hung(1) /\ Busy(d)) ~> ~Busy(d)

\* C17 witness: a page.goto of connection 1 is pending, its own frame loop has
\* just sent a frame, and connection 2 has a running loop and a click awaited.
C17_Witness ==
    /\ Hung(1) /\ FrameSent(1)
    /\ loop[2].pc \in {"sleep", "capture"}
    /\ \E k \in InFlight(2) : handlers[2][k].pc = "action"

\* C18: a switch_tab or close_tab whose index is outside [0, len(tabs)) of a
\* registered session leaves the tab lists, activeIndex, the registry and the
\* browser's pages as they are (no page.close is issued) and no error message
\* is sent.
C18_OutOfRangeIgnored ==
    [][\A c \in Conns :
          (/\ Receives(c, {"switch_tab", "close_tab"})
           /\ Sid(c) \in sessions
           /\ event'.index \notin 0..(Len(obj[Sid(c)].pages) - 1))
          => /\ obj' = obj /\ sessions' = sessions /\ chromium' = chromium
             /\ \A i \in 1..Len(sent') : sent'[i].type # "error"]_vars

\* C18 witness: the last step received a close_tab whose index is past the end
\* of the list of a session with several tabs, none of which was ever closed.
C18_Witness ==
    \E c \in Conns :
        /\ event.kind = "message" /\ event.c = c /\ event.type = "close_tab"
        /\ Sid(c) \in sessions
        /\ Len(obj[Sid(c)].pages) >= 2
        /\ event.index >= Len(obj[Sid(c)].pages)
        /\ chromium[Sid(c)].closedPages = {}
        /\ \A p \in 1..chromium[Sid(c)].nPages : chromium[Sid(c)].pageCloseCalls[p] = 0

\* C19: when createTab's awaits have resolved, the tab list is the one before
\* with exactly one page appended, a page that was not in the list, and
\* activeIndex is the index of that page; and once two messages have been
\* handled to their end and the session has three tabs (both were new_tab),
\* activeIndex is 2.
C19_OpenTabAppends ==
    [][\A c \in Conns :
          /\ \A k \in InFlight(c) :
                (/\ handlers[c][k].pc = "newPage"
                 /\ Resumed(c, k)
                 /\ event' = Settled(c, TRUE))
                => /\ Len(obj'[Sid(c)].pages) = Len(obj[Sid(c)].pages) + 1
                   /\ \A j \in 1..Len(obj[Sid(c)].pages) :
                         /\ obj'[Sid(c)].pages[j] = obj[Sid(c)].pages[j]
                         /\ obj'[Sid(c)].pages[j] # obj'[Sid(c)].pages[Len(obj'[Sid(c)].pages)]
                   /\ obj'[Sid(c)].activeIndex = Len(obj'[Sid(c)].pages) - 1
          /\ (/\ Created(c)' /\ received'[c] = 2 /\ handlers'[c] = <<>>
              /\ Len(obj'[Sid(c)'].pages) = 3)
                => obj'[Sid(c)'].activeIndex = 2]_vars

\* C19 witness: two new_tab messages on a fresh session have been handled to
\* their end: three tabs, the last one active.
C19_Witness ==
    \E c \in Conns :
        /\ Sid(c) \in sessions
        /\ received[c] = 2 /\ handlers[c] = <<>>
        /\ Len(obj[Sid(c)].pages) = 3
        /\ obj[Sid(c)].activeIndex = 2

\* C20: when the awaited browser call of a control message (a mouse or keyboard
\* call, page.goto, createTab) rejects on an open connection, exactly one error
\* message is sent to that connection and nothing else, the connection and the
\* registry are as before, and the listener still takes the next message.
C20_ThrowIsReported ==
    [][\A c \in Conns : \A k \in InFlight(c) :
          (/\ handlers[c][k].pc \in {"action", "goto", "newPage"}
           /\ Resumed(c, k)
           /\ event' = Settled(c, FALSE)
           /\ conn[c].wsOpen)
          => /\ sent' = <<ErrorMsg(c)>>
             /\ conn' = conn /\ sessions' = sessions /\ obj' = obj
             /\ (received'[c] < MaxMsgs /\ Len(handlers'[c]) < MaxInFlight)
                   => CanRecv(c)']_vars

\* C20 witness: an awaited call of a control message has just rejected on an
\* open connection with a registered session; one error message is on the wire
\* and a later message can still be received.
C20_Witness ==
    \E c \in Conns :
        /\ event = Settled(c, FALSE)
        /\ sent = <<ErrorMsg(c)>>
        /\ Sid(c) \in sessions
        /\ CanRecv(c)


\* C21: when a capture of the frame loop fails (page.screenshot rejects, or the
\* active page is found closed), the loop sends one error message while the
\* socket is open, none otherwise, and is terminated; the step leaves the
\* registry, the tab lists, activeIndex, the browser and the connection as they
\* are, and the message listener still takes the next control message.
C21_CaptureFailureEndsLoopOnly ==
    [][\A c \in Conns :
          (loop[c].pc # "terminated" /\ loop'[c].pc = "terminated" /\ loop'[c].exit = "error")
          => /\ sent' = IF conn[c].wsOpen THEN <<ErrorMsg(c)>> ELSE <<>>
             /\ sessions' = sessions /\ obj' = obj /\ chromium' = chromium
             /\ conn' = conn /\ handlers' = handlers
             /\ CanRecv(c) => CanRecv(c)']_vars

\* C21 witness: a capture has just failed on an open connection: the loop is
\* terminated, one error message is on the wire, the session is registered
\* with its tab and a control message can be received.
C21_Witness ==
    \E c \in Conns :
        /\ loop[c].pc = "terminated" /\ loop[c].exit = "error"
        /\ event = Settled(c, FALSE)
        /\ sent = <<ErrorMsg(c)>>
        /\ Sid(c) \in sessions /\ Len(obj[Sid(c)].pages) = 1
        /\ CanRecv(c)


\* The connection is one whose createSession rejected.
Refused(c) == conn[c].st = "refused"

\* C22: the step in which createSession rejects puts one error message on the
\* socket (none if the client has already closed it), sends no session_started
\* and registers nothing; afterwards the socket is closed, the connection has no
\* session id, no control handler, no close handler, no initial tabs_state and
\* no frame loop, and it never receives a control message.
C22_FailedCreateStartsNothing ==
    [][\A c \in Conns :
          /\ (~Refused(c) /\ Refused(c)')
             => /\ conn[c].st = "creating"
                /\ sent' = IF conn[c].wsOpen THEN <<ErrorMsg(c)>> ELSE <<>>
                /\ sessions' = sessions /\ obj' = obj /\ chromium' = chromium
          /\ Refused(c)'
             => /\ ~conn'[c].wsOpen
                /\ conn'[c].sessionId = Absent
                /\ handlers'[c] = <<>>
                /\ closeHandler'[c] = Idle
                /\ initTabs'[c] = NoInit
                /\ loop'[c] = LoopOff
                /\ received'[c] = 0
                /\ \A k \in 1..Len(sent') : sent'[k].to = c => sent'[k].type = "error"]_vars

\* C22 witness: createSession has just rejected on an open socket: the one
\* error message is on the wire and nothing is registered.
C22_Witness ==
    \E c \in Conns :
        /\ Refused(c)
        /\ event = Settled(c, FALSE)
        /\ sent = <<ErrorMsg(c)>>
        /\ sessions = {}
        /\ ~conn[c].wsOpen


\* C23: a message that JSON.parse rejects is answered with exactly one error
\* message; the step starts no handler, leaves the registry, every tab list and
\* activeIndex, the browser and the connection unchanged, and the listener
\* takes later messages as before.
C23_BadJsonOnlyAnswered ==
    [][\A c \in Conns :
          Receives(c, {"badjson"})
          => /\ sent' = <<ErrorMsg(c)>>
             /\ handlers' = handlers
             /\ sessions' = sessions /\ obj' = obj /\ chromium' = chromium
             /\ conn' = conn /\ conn'[c].wsOpen /\ conn'[c].st = "open"
             /\ closeHandler' = closeHandler /\ loop' = loop]_vars

\* C23 witness: an unparsable message has just been answered while a new_tab
\* is still in flight, and the session has its one tab.
C23_Witness ==
    \E c \in Conns :
        /\ event = Got(c, "badjson", 0)
        /\ sent = <<ErrorMsg(c)>>
        /\ Len(handlers[c]) = 1 /\ handlers[c][1].type = "new_tab"
        /\ Sid(c) \in sessions /\ Len(obj[Sid(c)].pages) = 1
        /\ conn[c].wsOpen


\* The listener invocation k of connection c, started by a message of one of
\* these types, ends its sendTabsState in this step.
TabsReported(c, k, types) ==
    /\ k \in InFlight(c)
    /\ handlers[c][k].pc = "titles"
    /\ handlers[c][k].type \in types
    /\ Len(handlers'[c]) = Len(handlers[c]) - 1
    /\ handlers'[c] = RemoveAt(handlers[c], k)
    /\ event' = Settled(c, TRUE)

\* C24: the sendTabsState of a new_tab, switch_tab or close_tab that ends on an
\* open socket sends exactly one tabs_state; it carries the tab list as the
\* operation left it and, with it, the activeIndex the operation left, which
\* is an index of that list.
C24_TabsStateReflectsOperation ==
    [][\A c \in Conns : \A k \in InFlight(c) :
          (TabsReported(c, k, {"new_tab", "switch_tab", "close_tab"}) /\ conn[c].wsOpen)
          => /\ Len(sent') = 1
             /\ sent'[1].to = c /\ sent'[1].type = "tabs_state"
             /\ sent'[1].tabs = handlers[c][k].snap
             /\ sent'[1].activeIndex \in 0..(sent'[1].tabs - 1)]_vars


\* The listener invocations of connection c that a goto message started and
\* that have not returned yet.
GotoTasks(hs) == {k \in 1..Len(hs) : hs[k].type = "goto"}

\* Some message of this type goes out to connection c in this step.
Sends(c, type) == \E i \in 1..Len(sent') : sent'[i].to = c /\ sent'[i].type = type

\* C25: a goto that arrives for a registered session starts a handler, with an
\* error message at once when the url does not normalise; when page.goto
\* rejects an error message is sent and the handler goes on; a goto handler
\* only returns in a step that sends tabs_state; none of these steps changes
\* the registry, a tab list, activeIndex or the connection, whose socket is open.
C25_GotoEndsWithTabsState ==
    [][\A c \in Conns :
          conn[c].wsOpen =>
          /\ (Receives(c, {"goto"}) /\ getSession(Sid(c)) # Absent)
             => /\ Cardinality(GotoTasks(handlers'[c])) =
                       Cardinality(GotoTasks(handlers[c])) + 1
                /\ Sends(c, "error") <=> handlers'[c][Len(handlers'[c])].pc = "titles"
                /\ obj' = obj /\ sessions' = sessions /\ conn' = conn
          /\ (\E k \in InFlight(c) : handlers[c][k].pc = "goto")
             /\ event' = Settled(c, FALSE)
             /\ handlers'[c] # handlers[c]
             => /\ Sends(c, "error")
                /\ obj' = obj /\ sessions' = sessions /\ conn' = conn
          /\ Cardinality(GotoTasks(handlers'[c])) < Cardinality(GotoTasks(handlers[c]))
             => /\ Sends(c, "tabs_state")
                /\ obj' = obj /\ sessions' = sessions /\ conn' = conn]_vars


\* new URL(s) gives an absolute url of scheme http or https.
IsHttp(parsed) == parsed.ok /\ parsed.protocol \in {<<"http">>, <<"https">>}

\* The listener of connection c takes a goto and reaches normalizeUrl.
Normalises(c) == Receives(c, {"goto"}) /\ event'.nav # NoNav

\* The listener invocation this step started awaits page.goto.
Navigates(c) ==
    /\ Len(handlers'[c]) = Len(handlers[c]) + 1
    /\ handlers'[c][Len(handlers'[c])].pc = "goto"

\* C26 as stated: what a goto hands to page.goto has scheme http or https; a
\* url that parses as an absolute http(s) url is handed over as parsed; any
\* other url is prefixed with https:// and parsed again, and handed over if
\* that gives an http(s) url; else it is rejected and nothing is navigated.
C26_PrefixAnyOther ==
    [][\A c \in Conns :
          Normalises(c) =>
          LET parsed == URLParse(event'.url)
              parsed2 == URLParse(<<"https", ":", "//">> \o trim(event'.url))
          IN  /\ Navigates(c) <=> event'.nav # Throws
              /\ Navigates(c) => event'.nav[1] \in {"http", "https"}
              /\ IsHttp(parsed) => event'.nav = parsed.href
              /\ ~IsHttp(parsed)
                 => event'.nav = IF IsHttp(parsed2) THEN parsed2.href ELSE Throws]_vars

\* C26 amended: as above, but a url that does not parse as an absolute http(s)
\* url and begins with http:// or https:// (in any case) is rejected without
\* the prefix; only the other urls are prefixed and parsed again.
C26_PrefixUnlessHttpPrefix ==
    [][\A c \in Conns :
          Normalises(c) =>
          LET parsed == URLParse(event'.url)
              parsed2 == URLParse(<<"https", ":", "//">> \o trim(event'.url))
          IN  /\ Navigates(c) <=> event'.nav # Throws
              /\ Navigates(c) => event'.nav[1] \in {"http", "https"}
              /\ IsHttp(parsed) => event'.nav = parsed.href
              /\ (~IsHttp(parsed) /\ HasHttpPrefix(trim(event'.url)))
                 => event'.nav = Throws
              /\ (~IsHttp(parsed) /\ ~HasHttpPrefix(trim(event'.url)))
                 => event'.nav = IF IsHttp(parsed2) THEN parsed2.href ELSE Throws]_vars

\* C26 witness: the goto of " example.com" has just handed https://example.com/
\* to page.goto, which is awaited.
C26_Witness ==
    \E c \in Conns :
        /\ event = GotGoto(c, <<" ", "example.com">>,
                           <<"https", ":", "//", "example.com", "/">>)
        /\ Len(handlers[c]) = 1 /\ handlers[c][1].pc = "goto"


\* createSession resolves for connection c in this step.
Creates(c) == conn[c].st = "creating" /\ conn'[c].st = "open"

\* C27: the step in which createSession resolves on an open socket sends, first
\* of all, one session_started with the id under which the session has just
\* been registered, which is an id and not the absent one, and the viewport
\* 1024 x 576; no other step sends a session_started; and no message goes to a
\* connection with a session before that step.
C27_SessionStartedFirst ==
    [][\A c \in Conns :
          /\ (Creates(c) /\ conn[c].wsOpen)
             => /\ sent' # <<>>
                /\ sent'[1] = SessionStarted(c, Sid(c)')
                /\ Sid(c)' \in sessions' /\ Sid(c)' \in SessionIds /\ Sid(c)' # Absent
                /\ sent'[1].viewport = [width |-> 1024, height |-> 576]
                /\ \A i \in 2..Len(sent') : sent'[i].type # "session_started"
          /\ \A i \in 1..Len(sent') :
                sent'[i].to = c
                => /\ sent'[i].type = "session_started" => Creates(c)
                   /\ (sent'[i].type # "session_started" /\ conn'[c].st = "open")
                      => conn[c].st = "open" \/ (Creates(c) /\ i > 1)]_vars

\* C27 witness: createSession has just resolved on an open socket and the
\* session_started of the registered session is the one message on the wire.
C27_Witness ==
    \E c \in Conns :
        /\ event = Settled(c, TRUE)
        /\ conn[c].st = "open" /\ conn[c].wsOpen
        /\ Sid(c) \in sessions
        /\ sent = <<SessionStarted(c, Sid(c))>>
        /\ initTabs[c].pc = "titles"


\* The step is one of connection c: of its handleConnection, of one of its
\* listeners or of its frame loop.
Acts(c) ==
    \/ conn'[c] # conn[c]
    \/ handlers'[c] # handlers[c]
    \/ closeHandler'[c] # closeHandler[c]
    \/ initTabs'[c] # initTabs[c]
    \/ loop'[c] # loop[c]
    \/ received'[c] # received[c]

\* The session id is registered or not as before, with the same tab list and
\* the same activeIndex.
SameSession(id) ==
    /\ obj'[id] = obj[id]
    /\ (id \in sessions') <=> (id \in sessions)

\* C29: a step of one connection (its session being created, a control message
\* taken, a tab opened, switched or closed, the session destroyed, a step of
\* the frame loop) leaves the session of every other connection registered or
\* not as it was, with its tab list and activeIndex unchanged.
C29_SessionsIsolated ==
    [][\A c \in Conns : \A d \in Conns \ {c} :
          (Acts(c) /\ Created(d)) => SameSession(Sid(d))]_vars

\* C29 witness: the first connection's session has been destroyed while the
\* second one's is registered with the two tabs it had.
C29_Witness ==
    /\ Created(1) /\ Sid(1) \notin sessions
    /\ Created(2) /\ sessions = {Sid(2)}
    /\ Len(obj[Sid(2)].pages) = 2 /\ obj[Sid(2)].activeIndex = 1


\* C28: a session id enters the registry only in the step in which createSession
\* resolves for a connection: no lookup found the id before, no other
\* connection has or had it, and from that step on the lookup gives the session
\* with exactly one tab, an open page, and activeIndex 0; nothing else is
\* registered by the step.
C28_CreateRegistersFresh ==
    [][/\ \A id \in sessions' \ sessions :
             \E c \in Conns :
                /\ Creates(c) /\ Sid(c)' = id
                /\ getSession(id) = Absent
                /\ \A d \in Conns \ {c} : Sid(d) # id
                /\ Len(obj'[id].pages) = 1 /\ obj'[id].activeIndex = 0
                /\ getActivePage(id)' = obj'[id].pages[1]
                /\ obj'[id].pages[1] \notin chromium'[id].closedPages
                /\ sessions' = sessions \cup {id}
       /\ \A c \in Conns : Creates(c) => Sid(c)' \in sessions' \ sessions]_vars

\* C28 witness: the second connection's session has just been registered, with
\* one tab and activeIndex 0, under an id other than that of the first
\* connection's session, which has been destroyed.
C28_Witness ==
    /\ event = Settled(2, TRUE)
    /\ Created(1) /\ Sid(1) \notin sessions
    /\ Created(2) /\ sessions = {Sid(2)} /\ Sid(2) # Sid(1)
    /\ obj[Sid(2)] = [pages |-> <<1>>, activeIndex |-> 0]
    /\ handlers[2] = <<>> /\ received[2] = 0


\* The position of the tab p in the tab list s.
Pos(s, p) == CHOOSE i \in 1..Len(s) : s[i] = p

\* C30: no tab is twice in a tab list, and two tabs that are in a session's tab
\* list before and after a step are in the same order after it as before; the
\* pages of a browser being numbered as they are pushed, the list is in the
\* order in which its tabs were added.
C30_TabOrderKept ==
    [][\A id \in SessionIds :
          /\ \A i, j \in 1..Len(obj'[id].pages) :
                i < j => obj'[id].pages[i] < obj'[id].pages[j]
          /\ \A p, q \in Range(obj[id].pages) \cap Range(obj'[id].pages) :
                (Pos(obj[id].pages, p) < Pos(obj[id].pages, q))
                <=> (Pos(obj'[id].pages, p) < Pos(obj'[id].pages, q))]_vars

\* C30 witness: the middle one of three tabs has just been removed and the
\* first and the third are left, in that order.
C30_Witness ==
    \E c \in Conns :
        /\ event = Got(c, "close_tab", 1)
        /\ Sid(c) \in sessions
        /\ obj[Sid(c)].pages = <<1, 3>>


\* C31: a click with x and y from 0 to 1 that finds an active tab is dispatched
\* on the page the active-tab lookup gives at that moment, at the point whose
\* coordinates are x times the width and y times the height of the viewport of
\* that page, 1024 by 576, neither rounded nor cut; the handler then awaits
\* that call.
C31_ClickAtScaledPoint ==
    [][\A c \in Conns :
          (Receives(c, {"click"}) /\ getActivePage(Sid(c)) # Absent)
          => /\ event'.x.num \in 0..event'.x.den /\ event'.y.num \in 0..event'.y.den
             /\ event'.page = obj[Sid(c)].pages[obj[Sid(c)].activeIndex + 1]
             /\ event'.at.x.den # 0 /\ event'.at.y.den # 0
             /\ event'.at.x.num * event'.x.den = event'.x.num * 1024 * event'.at.x.den
             /\ event'.at.y.num * event'.y.den = event'.y.num * 576 * event'.at.y.den
             /\ handlers'[c][Len(handlers'[c])].page = event'.page
             /\ handlers'[c][Len(handlers'[c])].pc = "action"]_vars

\* C31 witness: a click at two and three steps of the grid, (2/5, 3/5), with
\* the second tab active has just been dispatched on that tab at
\* (2048/5, 1728/5), that is (409.6, 345.6).
C31_Witness ==
    \E c \in Conns :
        /\ event = GotClick(c, Frac(2, ClickGrid), Frac(3, ClickGrid), 2,
                            [x |-> Frac(2048, ClickGrid), y |-> Frac(1728, ClickGrid)])
        /\ obj[Sid(c)].pages = <<1, 2>> /\ obj[Sid(c)].activeIndex = 1
        /\ Len(handlers[c]) = 1 /\ handlers[c][1].page = 2


\* The socket of connection c has closed while createSession is awaited.
ClosedWhileCreating(c) == conn[c].st = "creating" /\ ~conn[c].wsOpen

\* C32: when the socket of a connection closes while createSession is awaited,
\* then either creation fails, or the session that creation registers is in
\* the end unregistered and the frame loop of the connection terminated.
C32_EarlyCloseStillDestroys ==
    \A c \in Conns :
        ClosedWhileCreating(c)
            ~> \/ Refused(c)
               \/ Created(c) /\ Sid(c) \notin sessions /\ loop[c].pc = "terminated"


\* C33: every tabs_state message on the wire has an activeIndex that is an
\* index of the tab list it carries (the list has the indices 0..len(tabs)-1
\* in order, being made by a map over the tab list).
C33_TabsStateCoherent ==
    \A i \in 1..Len(sent) :
        sent[i].type = "tabs_state" => sent[i].activeIndex \in 0..(sent[i].tabs - 1)


\* C34: once a close_tab of a connection has emptied the tab list of its
\* session, no step makes that tab list longer.
C34_NoTabAfterLastClose ==
    [][\A c \in Conns :
          lastTabClosed[c] => Len(obj'[Sid(c)].pages) <= Len(obj[Sid(c)].pages)]_vars


\* C35: the active-tab lookup never returns a tab whose page has been closed:
\* for every session, what getActivePage returns is absent or a page that is
\* still open, also while destroySession is closing the session's tabs.
C35_ActivePageIsOpen ==
    \A id \in 1..(nextId - 1) :
        getActivePage(id) # Absent => ~isClosed(id, getActivePage(id))


\* The tab that was active before the closeTab of task t removed its tab, for
\* a closeTab that no other handler has run beside: activeIndex is as it was,
\* and the tabs after the removed one have moved down by one.
ActiveBefore(id, t) ==
    LET a == obj[id].activeIndex
    IN  IF a < t.index THEN obj[id].pages[a + 1]
        ELSE IF a = t.index THEN t.page
        ELSE obj[id].pages[a]

\* C36: close_tab on an index other than activeIndex keeps the same tab
\* active: when closeTab returns, the active-tab lookup returns the tab it
\* returned before the message.
C36_OtherTabCloseKeepsActive ==
    [][\A c \in Conns : \A k \in InFlight(c) :
          (/\ handlers[c][k].pc = "pageClose"
           /\ Resumed(c, k)
           /\ obj[Sid(c)].activeIndex \in 0..Len(obj[Sid(c)].pages)
           /\ handlers[c][k].index # obj[Sid(c)].activeIndex)
          => getActivePage(Sid(c))' = ActiveBefore(Sid(c), handlers[c][k])]_vars


\* C37: a new_tab that fails changes nothing and is answered by an error only:
\* the step that receives a new_tab leaves every session's tab list and
\* activeIndex as they are, and so does the step in which the url does not
\* normalise or createTab's page creation or navigation rejects; that step
\* ends the handler, so no tabs_state follows for the message, and puts
\* exactly one error on the socket if it is open.
C37_FailedNewTabChangesNothing ==
    [][\A c \in Conns :
          /\ (event'.kind = "message" /\ event'.c = c /\ event'.type = "new_tab")
                => /\ obj' = obj
                   /\ handlers'[c] = handlers[c]
                         => sent' = IF conn[c].wsOpen THEN <<ErrorMsg(c)>> ELSE <<>>
          /\ \A k \in InFlight(c) :
                (/\ handlers[c][k].pc = "newPage"
                 /\ Resumed(c, k)
                 /\ event'.kind = "rejected")
                => /\ obj' = obj
                   /\ handlers'[c] = RemoveAt(handlers[c], k)
                   /\ sent' = IF conn[c].wsOpen THEN <<ErrorMsg(c)>> ELSE <<>>]_vars

\* C37 witness: with two tabs and the first one active, a createTab has just
\* rejected: the two tabs and activeIndex are as they were, the handler has
\* returned and its error is on the socket.
C37_Witness ==
    \E c \in Conns :
        /\ event = Settled(c, FALSE)
        /\ obj[Sid(c)] = [pages |-> <<1, 2>>, activeIndex |-> 0]
        /\ handlers[c] = <<>>
        /\ sent = <<ErrorMsg(c)>>


\* C38: the end of the frame loop is final: from the step in which the loop of
\* a connection ends (capture failure, no active tab, or close), the loop
\* stays ended, with the same cause, and no frame goes out on the connection,
\* whatever the session's tabs become.
C38_TerminatedAbsorbing ==
    [][\A c \in Conns :
          loop[c].pc = "terminated"
             => (loop'[c] = loop[c] /\ ~FrameSent(c)')]_vars

\* C38 witness: the loop ended because the session had no active tab; a
\* new_tab has since given the session a tab, which is active and open on an
\* open connection whose queue is low, and the loop is still ended.
C38_Witness ==
    \E c \in Conns :
        /\ loop[c] = Terminated("noPage")
        /\ CanCapture(c)
        /\ ~bufferedHigh[c]
        /\ handlers[c] = <<>>


\* The frame loop of connection c is running with the queue above the
\* threshold, and the close listener has set the closed flag or the session
\* is no longer registered.
ThrottledAndOver(c) ==
    /\ loop[c].pc \in {"sleep", "capture"}
    /\ bufferedHigh[c]
    /\ (conn[c].closed \/ (Created(c) /\ Sid(c) \notin sessions))

\* C39: backpressure does not keep the frame loop alive: a loop that is
\* running with the queue above the threshold once the connection has closed
\* or the session has been destroyed ends, also when the queue stays above
\* the threshold for ever.
C39_ThrottledLoopEnds ==
    \A c \in Conns : ThrottledAndOver(c) ~> loop[c].pc = "terminated"

\* C39 witness: the queue is above the threshold, the connection has closed,
\* and the cycle that has just run after a sleep ended the loop at its check
\* of the closed flag.
C39_Witness ==
    \E c \in Conns :
        /\ event = Timer(c)
        /\ bufferedHigh[c]
        /\ conn[c].closed
        /\ loop[c] = Terminated("closed")

====
